---- MODULE Spec2Model ----
(***************************************************************************)
(* Render-command pipeline of the renderer plugin (RendererImpl,           *)
(* RenderTask, GPUProfiler).                                               *)
(*                                                                         *)
(* Spec          the push pipeline: producer facade calls, the scheduler   *)
(*               tasks started by push(), the command queue and the        *)
(*               render thread's drain loop.                               *)
(* SpecProfiler  the GPU profiler's history ring with frame() on the       *)
(*               render thread and getResults() on the producer, each      *)
(*               split at its accesses to the shared cursors and slots.    *)
(***************************************************************************)
EXTENDS Integers, Sequences, FiniteSets, TLC

\* ---------------------------------------------------------------- bounds
MaxCalls == 2          \* resource calls (create*/loadTexture/destroy) made by the producer
MaxFrames == 1         \* frame() calls made by the producer in Spec
MaxPacingFrames == 3   \* frame() calls made by the producer in SpecPacing
MaxProfFrames == 5     \* GPUProfiler::frame() calls in SpecProfiler
MaxQueries == 3        \* beginQuery/endQuery calls in SpecProfiler
MaxAllocs == 3         \* allocTransient() calls made by the producer in SpecTransient
MaxLiveCalls == 1       \* create calls in SpecLive
MaxLiveFrames == 2      \* frame() calls in SpecLive
MaxSecondCalls == 1     \* create calls of the second thread
MaxStateCalls == 2      \* setGlobalState() calls
MaxTransientFrames == 2 \* frame() calls made by the producer in SpecTransient

\* ------------------------------------------------------------- constants
INVALID_HANDLE == 0
nullptr == 0
INT_MAX == 2147483647
FrameSemaphoreMax == 2
FrameSemaphoreInitBroken == FrameSemaphoreMax + 1
FrameSemaphoreInit == 2
FinishedSemaphoreMax == 1
FinishedSemaphoreInitBroken == FinishedSemaphoreMax
FinishedSemaphoreInit == 0
HistorySize == 3

\* Sizes and offsets of the transient buffer are counted in MiB: the model
\* draws allocation sizes from the multiples of 1 MiB, on which 32-bit
\* unsigned byte arithmetic is arithmetic modulo 4096 MiB.
TRANSIENT_BUFFER_SIZE == 64
UintRange == 4096

\* the address ffr::map() returns for the transient buffer
MappedPtr == 8192

\* allocation sizes the producer asks for: within the budget, and beyond it
AllocSizes == {1, 63, 64}
UintSizes == {TRANSIENT_BUFFER_SIZE + 1, UintRange - 1}

\* values the uninitialised m_transient_buffer_offset may hold before
\* RenderTask::task() assigns it
UninitializedOffsets == {0, 1}

\* the cap on the shader-define table; its declaration is outside these
\* sources, and the model takes a small one
MAX_SHADER_DEFINES == 3

\* the define names callers pass, more of them than the table may hold
DefineNames == 1..(MAX_SHADER_DEFINES + 2)

\* u8, the return type of getShaderDefineIdx
U8Range == 256

\* the builds: ASSERT stops a debug build and is compiled out of a release build
Builds == {"debug", "release"}

\* the GlobalState values callers pass
GlobalStates == {1, 2}

\* the content of a GlobalState or of a driver buffer nothing has written yet
Indeterminate == 0

CreateKinds == {"createBuffer", "createTexture", "loadTexture"}

Min(a, b) == IF a < b THEN a ELSE b

Range(s) == {s[i] : i \in DOMAIN s}

VARIABLES
    \* producer (facade caller)
    pc_prod,            \* position of the producer thread
    push_cmd,           \* push(): cmd
    preconditions,      \* push(): local SignalHandle preconditions
    push_ret,           \* where the producer continues after push() returns
    m_last_exec_job,
    calls,              \* resource calls made so far
    frames,             \* frame() calls started so far
    frames_returned,    \* frame() calls that have returned
    handles,            \* handles handed out by the driver's handle allocators
    create_ret,         \* what the last createBuffer/createTexture/loadTexture returned
    \* jobs
    jobs,               \* RenderJob objects in submission order
    next,               \* RenderJob::next
    deleted,            \* jobs freed by the render thread
    \* scheduler
    signals,            \* JobSystem signal counters
    tasks,              \* JobSystem tasks started by push()
    \* render task
    pc_render,
    cmd,                \* RenderTask::task(): cmd
    m_commands_lock,
    m_commands_semaphore,
    m_commands_head,
    m_commands_tail,
    m_shutdown_requested,
    m_finished_semaphore,
    m_frame_semaphore,
    m_transient_buffer_offset,
    m_profiler,         \* GPUProfiler
    \* driver
    ffr_calls,          \* <<function, thread>> of the driver calls made
    ffr_ncalls,         \* number of driver calls made
    ffr_queries,        \* timestamp of each driver query object
    ffr_clock,          \* the driver's timestamp clock
    \* observation
    appended,           \* jobs in the order they were appended to the queue
    exec_log,           \* jobs in the order execute() began
    exec_done,          \* jobs whose execute() has returned
    \* profiler threads (SpecProfiler)
    pc_frame,           \* render thread inside GPUProfiler::frame()
    pc_get,             \* producer inside GPUProfiler::getResults()
    results,            \* getResults(): *results
    prof_frames,        \* frame() calls so far
    get_ret,            \* what the last getResults() returned
    stored_log,         \* frames swapped into the history, in order
    returned_log,       \* frames handed out by getResults(), in order
    produced_log,       \* the records of every frame at its frame() call
    \* transient allocator
    m_transient_buffer_ptr,
    alloc_size,         \* allocTransient(): the size argument
    slice,              \* allocTransient(): the local TransientSlice
    alloc_sum,          \* allocTransient(): the value computed by += before it is stored
    slices,             \* the slices allocTransient() has returned, in order
    \* a second thread calling the facade
    pc_prod2,           \* position of the second thread
    push_cmd2,          \* its push(): cmd
    preconditions2,     \* its push(): local SignalHandle preconditions
    submitter2,         \* the jobs the second thread submitted
    pc_alloc2,          \* position of the second thread inside allocTransient()
    alloc_size2,
    slice2,
    alloc_sum2,
    \* shader defines
    m_shader_defines,
    define_ret,         \* what the last getShaderDefineIdx() returned
    define_errors,      \* "Too many shader defines." errors logged
    \* global state
    m_global_state,
    ffr_uniforms,       \* content of the driver's global-state uniform buffer
    set_log,            \* the arguments of the setGlobalState() calls, in order
    state_ret,          \* what the last getGlobalState() returned, and after how many sets
    \* MemRefs
    mem                 \* the MemRefs passed to the create calls: owned, freed how often, read

pipeline_vars == <<pc_prod, push_cmd, preconditions, push_ret, m_last_exec_job, calls, frames,
                   frames_returned, handles, jobs, next, deleted, signals, tasks, pc_render, cmd,
                   m_commands_lock, m_commands_semaphore, m_commands_head, m_commands_tail,
                   m_shutdown_requested, m_finished_semaphore, m_frame_semaphore,
                   m_transient_buffer_offset, appended, exec_log, exec_done>>

driver_vars == <<ffr_calls, ffr_ncalls, ffr_queries, ffr_clock>>

profiler_thread_vars == <<pc_frame, pc_get, results, prof_frames, get_ret, stored_log,
                          returned_log, produced_log>>

transient_vars == <<m_transient_buffer_ptr, alloc_size, slice, alloc_sum, slices>>

second_vars == <<pc_prod2, push_cmd2, preconditions2, submitter2>>

alloc2_vars == <<pc_alloc2, alloc_size2, slice2, alloc_sum2>>

defines_vars == <<m_shader_defines, define_ret, define_errors>>

state_vars == <<m_global_state, ffr_uniforms, set_log, state_ret>>

other_vars == <<second_vars, alloc2_vars, defines_vars, state_vars, mem>>

vars == <<pipeline_vars, driver_vars, m_profiler, profiler_thread_vars, transient_vars,
          create_ret, other_vars>>

\* ------------------------------------------------------------ semaphores
\* MT::Semaphore(init_count, max_count)
Semaphore(init_count, max_count) == [count |-> init_count, max |-> max_count]

\* MT::Semaphore::signal(): a signal at max_count leaves the count unchanged
Semaphore_signal(s) == [s EXCEPT !.count = Min(s.count + 1, s.max)]

\* MT::Semaphore::wait() returns only when it has taken a token
Semaphore_canWait(s) == s.count > 0

Semaphore_wait(s) == [s EXCEPT !.count = s.count - 1]

\* ---------------------------------------------------------------- driver
\* driver calls made synchronously by a facade entry point on the caller's thread
FacadeDriverCallsBroken(op) ==
    CASE op = "constructor" -> {"preinit"}
      [] op = "createBuffer" -> {"allocBufferHandle", "createBuffer"}
      [] op = "createTexture" -> {"allocTextureHandle"}
      [] op = "loadTexture" -> {"allocTextureHandle", "getTextureInfo"}
      [] op = "allocTransient" -> {"checkThread"}
      [] OTHER -> {}

FacadeDriverCalls(op) ==
    CASE op = "constructor" -> {"preinit"}
      [] op = "createBuffer" -> {"allocBufferHandle"}
      [] op = "createTexture" -> {"allocTextureHandle"}
      [] op = "loadTexture" -> {"allocTextureHandle", "getTextureInfo"}
      [] op = "allocTransient" -> {"checkThread"}
      [] OTHER -> {}

\* driver calls made by Cmd::execute() of each job kind (the swap job's
\* profiler read-back is added where the swap executes)
ExecuteDriverCalls(kind) ==
    CASE kind = "createBuffer" -> {"createBuffer"}
      [] kind = "createTexture" -> {"createTexture"}
      [] kind = "loadTexture" -> {"loadTexture"}
      [] kind = "destroy" -> {"destroy"}
      [] kind = "swap" -> {"swapBuffers"}
      [] kind = "setGlobalState" -> {"update"}
      [] OTHER -> {}

\* driver calls of RenderTask::task() before the drain loop
StartupDriverCalls == {"init", "createFramebuffer", "allocBufferHandle", "createBuffer",
                       "bindUniformBuffer", "map"}

\* driver calls of RenderTask::task() after the drain loop
TeardownDriverCalls == {"destroy", "shutdown"}

Called(fns, thread) == {<<f, thread>> : f \in fns}

\* -------------------------------------------------------------- profiler
atomicIncrementBroken(v) == v + 2

\* MT::atomicIncrement on a cursor; the bounds keep the 32-bit cursors far from wrapping
atomicIncrement(v) == v + 1

SlotOfBroken(cursor) == (cursor % (HistorySize - 1)) + 1

\* cursor % m_history.size(), as an index into the 1-based m_history
SlotOf(cursor) == (cursor % HistorySize) + 1

GetResultsEmptyBroken(rd, wr) == rd > wr

\* GPUProfiler::getResults(): m_history_rd == m_history_wr
GetResultsEmpty(rd, wr) == rd = wr

\* GPUProfiler::frame(): for (Query& q : m_queries) { q.result = ...; m_pool.push(q.handle); }
FrameReadback(p, ts) ==
    [p EXCEPT !.m_queries = [i \in DOMAIN p.m_queries |->
                                [p.m_queries[i] EXCEPT !.result = ts[p.m_queries[i].handle]]],
              !.m_pool = p.m_pool \o [i \in DOMAIN p.m_queries |-> p.m_queries[i].handle]]

FrameHasRoomBroken(wr, rd) == wr <= rd + HistorySize

\* GPUProfiler::frame(): m_history_wr < m_history_rd + m_history.size()
FrameHasRoom(wr, rd) == wr < rd + HistorySize

\* GPUProfiler::frame(): m_history[m_history_wr % m_history.size()].swap(m_queries)
FrameSwap(p, wr) ==
    [p EXCEPT !.m_history = [p.m_history EXCEPT ![SlotOf(wr)] = p.m_queries],
              !.m_queries = p.m_history[SlotOf(wr)]]

FrameIncWr(p) == [p EXCEPT !.m_history_wr = atomicIncrement(p.m_history_wr)]

\* GPUProfiler::frame(): m_queries.clear(); atomicIncrement(&m_frame); ++m_frame;
FrameFinish(p) == [p EXCEPT !.m_queries = <<>>, !.m_frame = p.m_frame + 1 + 1]

\* GPUProfiler::frame() as one call
GPUProfiler_frame(p, ts) ==
    LET a == FrameReadback(p, ts)
        b == IF FrameHasRoom(a.m_history_wr, a.m_history_rd)
             THEN FrameIncWr(FrameSwap(a, a.m_history_wr))
             ELSE a
    IN FrameFinish(b)

GPUProfiler_init ==
    [m_frame |-> 0, m_history_rd |-> 0, m_history_wr |-> 0,
     m_history |-> <<<<>>, <<>>, <<>>>>, m_queries |-> <<>>, m_pool |-> <<>>]

\* ------------------------------------------------------------- scheduler
\* JobSystem::run(data, task, on_finished, precondition): the signal the new
\* task decrements when it finishes.  A valid *on_finished that is still
\* pending is joined (its counter is incremented), otherwise a signal is
\* allocated; slot is the pool slot an allocation takes.
Run_joins(on_finished) == on_finished # INVALID_HANDLE /\ signals[on_finished] > 0

Run_signal(on_finished, slot) == IF Run_joins(on_finished) THEN on_finished ELSE slot

Run_signals(pool, on_finished, slot) ==
    [pool EXCEPT ![Run_signal(on_finished, slot)] = @ + 1]

\* a signal is done when it is invalid or its counter is zero
SignalDone(s) == IF s = INVALID_HANDLE THEN TRUE ELSE signals[s] = 0

PushTaskPreconditionBroken(pre) == INVALID_HANDLE

\* push(): the precondition argument of the second JobSystem::run
PushTaskPrecondition(pre) == pre

LastExecJobAfterPushBroken(exec_counter) == INVALID_HANDLE

\* push(): m_last_exec_job = exec_counter
LastExecJobAfterPush(exec_counter) == exec_counter

SetupTask(j) == 2 * j - 1
PushTask(j) == 2 * j

\* --------------------------------------------------------- command queue
QueueAppendBroken(head, tail, nxt, c) ==
    [head |-> c, tail |-> IF tail = nullptr THEN c ELSE tail, next |-> [nxt EXCEPT ![c] = head]]

\* push task, under m_commands_lock: cmd->next = nullptr; link after tail; tail = cmd
QueueAppend(head, tail, nxt, c) ==
    LET n1 == [nxt EXCEPT ![c] = nullptr]
    IN [head |-> IF tail = nullptr THEN c ELSE head,
        tail |-> c,
        next |-> IF tail = nullptr THEN n1 ELSE [n1 EXCEPT ![tail] = c]]

QueuePopBroken(head, tail, nxt) == [cmd |-> head, head |-> head, tail |-> tail, next |-> nxt]

\* RenderTask::task(), under m_commands_lock: detach the head
QueuePop(head, tail, nxt) ==
    LET h == IF head # nullptr THEN nxt[head] ELSE head
    IN [cmd |-> head, head |-> h, tail |-> IF h = nullptr THEN nullptr ELSE tail, next |-> nxt]

\* ------------------------------------------------------------------ Init
Init ==
    /\ pc_prod = "idle"
    /\ push_cmd = nullptr
    /\ preconditions = INVALID_HANDLE
    /\ push_ret = "idle"
    /\ m_last_exec_job = INVALID_HANDLE
    /\ calls = 0
    /\ frames = 0
    /\ frames_returned = 0
    /\ handles = 0
    /\ create_ret = INVALID_HANDLE
    /\ jobs = <<>>
    /\ next = <<>>
    /\ deleted = {}
    /\ signals = <<>>
    /\ tasks = <<>>
    /\ pc_render = "start"
    /\ cmd = nullptr
    /\ m_commands_lock = "free"
    /\ m_commands_semaphore = Semaphore(0, INT_MAX)
    /\ m_commands_head = nullptr
    /\ m_commands_tail = nullptr
    /\ m_shutdown_requested = FALSE
    /\ m_finished_semaphore = Semaphore(FinishedSemaphoreInit, FinishedSemaphoreMax)
    /\ m_frame_semaphore = Semaphore(FrameSemaphoreInit, FrameSemaphoreMax)
    /\ m_transient_buffer_offset \in UninitializedOffsets
    /\ m_transient_buffer_ptr = nullptr
    /\ alloc_size = 0
    /\ slice = [offset |-> 0, size |-> 0, ptr |-> nullptr]
    /\ alloc_sum = 0
    /\ slices = <<>>
    /\ pc_prod2 = "idle"
    /\ push_cmd2 = nullptr
    /\ preconditions2 = INVALID_HANDLE
    /\ submitter2 = {}
    /\ pc_alloc2 = "idle"
    /\ alloc_size2 = 0
    /\ slice2 = [offset |-> 0, size |-> 0, ptr |-> nullptr]
    /\ alloc_sum2 = 0
    /\ m_shader_defines = <<>>
    /\ define_ret = 0
    /\ define_errors = 0
    /\ m_global_state = Indeterminate
    /\ ffr_uniforms = Indeterminate
    /\ set_log = <<>>
    /\ state_ret = [sets |-> 0, state |-> Indeterminate]
    /\ mem = <<>>
    /\ m_profiler = GPUProfiler_init
    /\ ffr_calls = Called(FacadeDriverCalls("constructor"), "producer")
    /\ ffr_ncalls = Cardinality(FacadeDriverCalls("constructor"))
    /\ ffr_queries = <<>>
    /\ ffr_clock = 0
    /\ appended = <<>>
    /\ exec_log = <<>>
    /\ exec_done = {}
    /\ pc_frame = "idle"
    /\ pc_get = "idle"
    /\ results = <<>>
    /\ prof_frames = 0
    /\ get_ret = "none"
    /\ stored_log = <<>>
    /\ returned_log = <<>>
    /\ produced_log = <<>>

\* a driver call set fns made on thread
DriverCall(fns, thread) ==
    /\ ffr_calls' = ffr_calls \cup Called(fns, thread)
    /\ ffr_ncalls' = ffr_ncalls + Cardinality(fns)

\* -------------------------------------------------------------- producer
\* push(cmd) up to and including the first JobSystem::run (the setup task)
PushFirstRun(job, ret) ==
    /\ jobs' = Append(jobs, job)
    /\ next' = Append(next, nullptr)
    /\ push_cmd' = Len(jobs) + 1
    /\ push_ret' = ret
    /\ preconditions' = Run_signal(m_last_exec_job, Len(signals) + 1)
    /\ signals' = Run_signals(signals \o <<0, 0>>, m_last_exec_job, Len(signals) + 1)
    /\ tasks' = Append(tasks, [fn |-> "setup", cmd |-> Len(jobs) + 1,
                                precondition |-> INVALID_HANDLE,
                                dec_on_finish |-> Run_signal(m_last_exec_job, Len(signals) + 1),
                                st |-> "queued"])
    /\ pc_prod' = "push"

PushSecondRunBroken ==
    /\ SignalDone(preconditions)
    /\ pc_prod = "push"
    /\ signals' = Run_signals(signals, INVALID_HANDLE, 2 * push_cmd)
    /\ tasks' = Append(tasks, [fn |-> "push", cmd |-> push_cmd,
                                precondition |-> PushTaskPrecondition(preconditions),
                                dec_on_finish |-> Run_signal(INVALID_HANDLE, 2 * push_cmd),
                                st |-> "queued"])
    /\ m_last_exec_job' = LastExecJobAfterPush(Run_signal(INVALID_HANDLE, 2 * push_cmd))
    /\ pc_prod' = push_ret
    /\ push_cmd' = nullptr
    /\ preconditions' = INVALID_HANDLE
    /\ push_ret' = "idle"
    /\ UNCHANGED <<calls, frames, frames_returned, handles,
                   jobs, next, deleted, pc_render, cmd, m_commands_lock, m_commands_semaphore,
                   m_commands_head, m_commands_tail, m_shutdown_requested, m_finished_semaphore,
                   m_frame_semaphore, m_transient_buffer_offset, appended, exec_log, exec_done>>
    /\ UNCHANGED <<driver_vars, m_profiler, profiler_thread_vars>>
    /\ UNCHANGED <<transient_vars, create_ret, other_vars>>

\* push(cmd): the second JobSystem::run (the push task) and m_last_exec_job = exec_counter
PushSecondRun ==
    /\ pc_prod = "push"
    /\ signals' = Run_signals(signals, INVALID_HANDLE, 2 * push_cmd)
    /\ tasks' = Append(tasks, [fn |-> "push", cmd |-> push_cmd,
                                precondition |-> PushTaskPrecondition(preconditions),
                                dec_on_finish |-> Run_signal(INVALID_HANDLE, 2 * push_cmd),
                                st |-> "queued"])
    /\ m_last_exec_job' = LastExecJobAfterPush(Run_signal(INVALID_HANDLE, 2 * push_cmd))
    /\ pc_prod' = push_ret
    /\ push_cmd' = nullptr
    /\ preconditions' = INVALID_HANDLE
    /\ push_ret' = "idle"
    /\ UNCHANGED <<calls, frames, frames_returned, handles,
                   jobs, next, deleted, pc_render, cmd, m_commands_lock, m_commands_semaphore,
                   m_commands_head, m_commands_tail, m_shutdown_requested, m_finished_semaphore,
                   m_frame_semaphore, m_transient_buffer_offset, appended, exec_log, exec_done>>
    /\ UNCHANGED <<driver_vars, m_profiler, profiler_thread_vars>>
    /\ UNCHANGED <<transient_vars, create_ret, other_vars>>

producer_frame == <<frames, frames_returned, deleted, pc_render, cmd, m_commands_lock,
                    m_commands_semaphore, m_commands_head, m_commands_tail, m_shutdown_requested,
                    m_finished_semaphore, m_frame_semaphore, m_transient_buffer_offset, appended,
                    exec_log, exec_done, ffr_queries, ffr_clock, m_profiler,
                    profiler_thread_vars>>

\* a MemRef as the caller passes it: not freed, not read by the driver
MemRef(own) == [own |-> own, freed |-> 0, read |-> FALSE, read_after_free |-> FALSE]

CreateInvalidBroken(kind, own) ==
    /\ pc_prod = "idle"
    /\ calls < MaxCalls
    /\ calls' = calls + 1
    /\ create_ret' = INVALID_HANDLE
    /\ mem' = Append(mem, MemRef(own))
    /\ DriverCall(FacadeDriverCalls(kind) \ {"getTextureInfo"}, "producer")
    /\ PushFirstRun([kind |-> kind, handle |-> INVALID_HANDLE, memory |-> Len(mem) + 1], "idle")
    /\ UNCHANGED <<m_last_exec_job, handles>>
    /\ UNCHANGED producer_frame
    /\ UNCHANGED <<transient_vars, second_vars, alloc2_vars, defines_vars, state_vars>>

\* createBuffer / createTexture / loadTexture: the handle allocator returned an invalid
\* handle; if (!handle.isValid()) return handle
CreateInvalid(kind, own) ==
    /\ pc_prod = "idle"
    /\ calls < MaxCalls
    /\ calls' = calls + 1
    /\ create_ret' = INVALID_HANDLE
    /\ mem' = Append(mem, MemRef(own))
    /\ DriverCall(FacadeDriverCalls(kind) \ {"getTextureInfo"}, "producer")
    /\ UNCHANGED <<pc_prod, push_cmd, preconditions, push_ret, m_last_exec_job, handles, jobs,
                   next, signals, tasks>>
    /\ UNCHANGED producer_frame
    /\ UNCHANGED <<transient_vars, second_vars, alloc2_vars, defines_vars, state_vars>>

\* createBuffer / createTexture / loadTexture with a valid handle: new Cmd, push(cmd)
Create(kind, own) ==
    /\ pc_prod = "idle"
    /\ calls < MaxCalls
    /\ calls' = calls + 1
    /\ handles' = handles + 1
    /\ mem' = Append(mem, MemRef(own))
    /\ DriverCall(FacadeDriverCalls(kind), "producer")
    /\ PushFirstRun([kind |-> kind, handle |-> handles + 1, memory |-> Len(mem) + 1], "idle")
    /\ create_ret' = handles + 1
    /\ UNCHANGED m_last_exec_job
    /\ UNCHANGED producer_frame
    /\ UNCHANGED <<transient_vars, second_vars, alloc2_vars, defines_vars, state_vars>>

\* destroy(handle) of a handle a create call returned
Destroy(h) ==
    /\ pc_prod = "idle"
    /\ calls < MaxCalls
    /\ calls' = calls + 1
    /\ DriverCall(FacadeDriverCalls("destroy"), "producer")
    /\ PushFirstRun([kind |-> "destroy", handle |-> h], "idle")
    /\ UNCHANGED <<m_last_exec_job, handles>>
    /\ UNCHANGED producer_frame
    /\ UNCHANGED <<transient_vars, create_ret, other_vars>>

\* setGlobalState(state): m_global_state = state; pushSetGlobalStateCommand(), whose
\* Cmd takes cmd->state = m_global_state
SetGlobalState(state) ==
    /\ pc_prod = "idle"
    /\ m_global_state' = state
    /\ set_log' = Append(set_log, state)
    /\ PushFirstRun([kind |-> "setGlobalState", handle |-> INVALID_HANDLE, state |-> state],
                    "idle")
    /\ UNCHANGED <<m_last_exec_job, calls, handles, ffr_calls, ffr_ncalls>>
    /\ UNCHANGED producer_frame
    /\ UNCHANGED <<transient_vars, create_ret, second_vars, alloc2_vars, defines_vars,
                   ffr_uniforms, state_ret, mem>>

\* getGlobalState(): return m_global_state, whose content is indeterminate
\* until the first setGlobalState()
GetGlobalState ==
    /\ pc_prod = "idle"
    /\ \E v \in (IF m_global_state = Indeterminate THEN GlobalStates ELSE {m_global_state}) :
           state_ret' = [sets |-> Len(set_log), state |-> v]
    /\ UNCHANGED <<pipeline_vars, driver_vars, m_profiler, profiler_thread_vars,
                   transient_vars, create_ret, second_vars, alloc2_vars, defines_vars,
                   m_global_state, ffr_uniforms, set_log, mem>>

\* getShaderDefineIdx(): the index of define in the table, or -1
DefineIndex(table, define) ==
    IF \E i \in DOMAIN table : table[i] = define
    THEN (CHOOSE i \in DOMAIN table :
             table[i] = define /\ \A k \in 1..(i - 1) : table[k] # define) - 1
    ELSE -1

\* getShaderDefineIdx(): if (m_shader_defines.size() >= MAX_SHADER_DEFINES)
DefineTableFull(table) == Len(table) >= MAX_SHADER_DEFINES

\* getShaderDefineIdx(define): return the index of a known name; for a new
\* name, ASSERT(false) and log the error if the table is full, then
\* m_shader_defines.emplace(define); return m_shader_defines.size() - 1
GetShaderDefineIdx(define, build) ==
    /\ pc_prod = "idle"
    /\ IF DefineIndex(m_shader_defines, define) >= 0
       THEN /\ define_ret' = DefineIndex(m_shader_defines, define) % U8Range
            /\ UNCHANGED <<m_shader_defines, define_errors, pc_prod>>
       ELSE IF DefineTableFull(m_shader_defines) /\ build = "debug"
       THEN /\ pc_prod' = "aborted"
            /\ UNCHANGED <<m_shader_defines, define_errors, define_ret>>
       ELSE /\ define_errors' = IF DefineTableFull(m_shader_defines)
                                 THEN define_errors + 1
                                 ELSE define_errors
            /\ m_shader_defines' = Append(m_shader_defines, define)
            /\ define_ret' = (Len(m_shader_defines) + 1 - 1) % U8Range
            /\ UNCHANGED pc_prod
    /\ UNCHANGED <<push_cmd, preconditions, push_ret, m_last_exec_job, calls, handles, jobs,
                   next, signals, tasks>>
    /\ UNCHANGED producer_frame
    /\ UNCHANGED <<driver_vars, transient_vars, create_ret, second_vars, alloc2_vars,
                   state_vars, mem>>

second_frame == <<pc_prod, push_cmd, preconditions, push_ret, calls, frames, frames_returned,
                  deleted, pc_render, cmd, m_commands_lock, m_commands_semaphore,
                  m_commands_head, m_commands_tail, m_shutdown_requested, m_finished_semaphore,
                  m_frame_semaphore, m_transient_buffer_offset, appended, exec_log, exec_done,
                  ffr_queries, ffr_clock, m_profiler, profiler_thread_vars, transient_vars,
                  create_ret, alloc2_vars, defines_vars, state_vars>>

\* a create call on a second thread, with a valid handle: new Cmd, then push(cmd) up to
\* and including the first JobSystem::run
Create2(kind) ==
    /\ pc_prod2 = "idle"
    /\ Cardinality(submitter2) < MaxSecondCalls
    /\ handles' = handles + 1
    /\ DriverCall(FacadeDriverCalls(kind), "second")
    /\ mem' = Append(mem, MemRef(TRUE))
    /\ jobs' = Append(jobs, [kind |-> kind, handle |-> handles + 1, memory |-> Len(mem) + 1])
    /\ next' = Append(next, nullptr)
    /\ submitter2' = submitter2 \cup {Len(jobs) + 1}
    /\ push_cmd2' = Len(jobs) + 1
    /\ preconditions2' = Run_signal(m_last_exec_job, Len(signals) + 1)
    /\ signals' = Run_signals(signals \o <<0, 0>>, m_last_exec_job, Len(signals) + 1)
    /\ tasks' = Append(tasks, [fn |-> "setup", cmd |-> Len(jobs) + 1,
                                precondition |-> INVALID_HANDLE,
                                dec_on_finish |-> Run_signal(m_last_exec_job, Len(signals) + 1),
                                st |-> "queued"])
    /\ pc_prod2' = "push"
    /\ UNCHANGED m_last_exec_job
    /\ UNCHANGED second_frame

\* push(cmd) on the second thread: the second JobSystem::run and
\* m_last_exec_job = exec_counter
Push2SecondRun ==
    /\ pc_prod2 = "push"
    /\ signals' = Run_signals(signals, INVALID_HANDLE, 2 * push_cmd2)
    /\ tasks' = Append(tasks, [fn |-> "push", cmd |-> push_cmd2,
                                precondition |-> PushTaskPrecondition(preconditions2),
                                dec_on_finish |-> Run_signal(INVALID_HANDLE, 2 * push_cmd2),
                                st |-> "queued"])
    /\ m_last_exec_job' = LastExecJobAfterPush(Run_signal(INVALID_HANDLE, 2 * push_cmd2))
    /\ pc_prod2' = "idle"
    /\ push_cmd2' = nullptr
    /\ preconditions2' = INVALID_HANDLE
    /\ UNCHANGED <<handles, jobs, next, submitter2, ffr_calls, ffr_ncalls, mem>>
    /\ UNCHANGED second_frame

\* frame(): pushSwapCommand()
FramePushSwap ==
    /\ pc_prod = "idle"
    /\ frames' = frames + 1
    /\ PushFirstRun([kind |-> "swap", handle |-> INVALID_HANDLE], "frame_semaphore")
    /\ UNCHANGED <<m_last_exec_job, calls, handles, frames_returned, deleted, pc_render, cmd,
                   m_commands_lock, m_commands_semaphore, m_commands_head, m_commands_tail,
                   m_shutdown_requested, m_finished_semaphore, m_frame_semaphore,
                   m_transient_buffer_offset, appended, exec_log, exec_done>>
    /\ UNCHANGED <<driver_vars, m_profiler, profiler_thread_vars>>
    /\ UNCHANGED <<transient_vars, create_ret, other_vars>>

\* frame(): m_frame_semaphore.wait()
FrameWaitSemaphore ==
    /\ pc_prod = "frame_semaphore"
    /\ Semaphore_canWait(m_frame_semaphore)
    /\ m_frame_semaphore' = Semaphore_wait(m_frame_semaphore)
    /\ pc_prod' = "frame_job"
    /\ UNCHANGED <<push_cmd, preconditions, push_ret, m_last_exec_job, calls, frames,
                   frames_returned, handles, jobs, next, deleted, signals, tasks, pc_render, cmd,
                   m_commands_lock, m_commands_semaphore, m_commands_head, m_commands_tail,
                   m_shutdown_requested, m_finished_semaphore, m_transient_buffer_offset,
                   appended, exec_log, exec_done>>
    /\ UNCHANGED <<driver_vars, m_profiler, profiler_thread_vars>>
    /\ UNCHANGED <<transient_vars, create_ret, other_vars>>

\* frame(): JobSystem::wait(m_last_exec_job); m_last_exec_job = INVALID_HANDLE
FrameWaitJob ==
    /\ pc_prod = "frame_job"
    /\ SignalDone(m_last_exec_job)
    /\ m_last_exec_job' = INVALID_HANDLE
    /\ frames_returned' = frames_returned + 1
    /\ pc_prod' = "idle"
    /\ UNCHANGED <<push_cmd, preconditions, push_ret, calls, frames, handles, jobs, next,
                   deleted, signals, tasks, pc_render, cmd, m_commands_lock,
                   m_commands_semaphore, m_commands_head, m_commands_tail, m_shutdown_requested,
                   m_finished_semaphore, m_frame_semaphore, m_transient_buffer_offset, appended,
                   exec_log, exec_done>>
    /\ UNCHANGED <<driver_vars, m_profiler, profiler_thread_vars>>
    /\ UNCHANGED <<transient_vars, create_ret, other_vars>>

\* ~RendererImpl(): m_render_task.shutdown(), which pushes the shutdown job
DtorShutdown ==
    /\ pc_prod = "idle"
    /\ PushFirstRun([kind |-> "shutdown", handle |-> INVALID_HANDLE], "dtor_job")
    /\ UNCHANGED <<m_last_exec_job, calls, handles, frames, frames_returned, deleted, pc_render,
                   cmd, m_commands_lock, m_commands_semaphore, m_commands_head, m_commands_tail,
                   m_shutdown_requested, m_finished_semaphore, m_frame_semaphore,
                   m_transient_buffer_offset, appended, exec_log, exec_done>>
    /\ UNCHANGED <<driver_vars, m_profiler, profiler_thread_vars>>
    /\ UNCHANGED <<transient_vars, create_ret, other_vars>>

\* ~RendererImpl(): if (isValid(m_last_exec_job)) { wait; m_last_exec_job = INVALID_HANDLE; }
DtorWaitJob ==
    /\ pc_prod = "dtor_job"
    /\ SignalDone(m_last_exec_job)
    /\ m_last_exec_job' = INVALID_HANDLE
    /\ pc_prod' = "dtor_finished"
    /\ UNCHANGED <<push_cmd, preconditions, push_ret, calls, frames, frames_returned, handles,
                   jobs, next, deleted, signals, tasks, pc_render, cmd, m_commands_lock,
                   m_commands_semaphore, m_commands_head, m_commands_tail, m_shutdown_requested,
                   m_finished_semaphore, m_frame_semaphore, m_transient_buffer_offset, appended,
                   exec_log, exec_done>>
    /\ UNCHANGED <<driver_vars, m_profiler, profiler_thread_vars>>
    /\ UNCHANGED <<transient_vars, create_ret, other_vars>>

\* ~RendererImpl(): m_render_task.m_finished_semaphore.wait(); m_render_task.destroy()
DtorWaitFinished ==
    /\ pc_prod = "dtor_finished"
    /\ Semaphore_canWait(m_finished_semaphore)
    /\ m_finished_semaphore' = Semaphore_wait(m_finished_semaphore)
    /\ pc_prod' = "destroyed"
    /\ UNCHANGED <<push_cmd, preconditions, push_ret, m_last_exec_job, calls, frames,
                   frames_returned, handles, jobs, next, deleted, signals, tasks, pc_render, cmd,
                   m_commands_lock, m_commands_semaphore, m_commands_head, m_commands_tail,
                   m_shutdown_requested, m_frame_semaphore, m_transient_buffer_offset, appended,
                   exec_log, exec_done>>
    /\ UNCHANGED <<driver_vars, m_profiler, profiler_thread_vars>>
    /\ UNCHANGED <<transient_vars, create_ret, other_vars>>

\* --------------------------------------------------- transient allocator
\* uint + uint
UintAdd(a, b) == (a + b) % UintRange

\* allocTransient(): m_transient_buffer_offset + size > TRANSIENT_BUFFER_SIZE ? 0 : size
AllocTransient_size(offset, size) ==
    IF UintAdd(offset, size) > TRANSIENT_BUFFER_SIZE THEN 0 ELSE size

\* allocTransient(): slice.size > 0 ? m_transient_buffer_ptr + slice.offset : nullptr
AllocTransient_ptr(ptr, sl) == IF sl.size > 0 THEN ptr + sl.offset ELSE nullptr

\* swap jobs whose execute() has returned
SwapsExecuted == Cardinality({j \in exec_done : jobs[j].kind = "swap"})

alloc_frame == <<push_cmd, preconditions, push_ret, m_last_exec_job, calls, frames,
                 frames_returned, handles, jobs, next, deleted, signals, tasks, pc_render, cmd,
                 m_commands_lock, m_commands_semaphore, m_commands_head, m_commands_tail,
                 m_shutdown_requested, m_finished_semaphore, m_frame_semaphore, appended,
                 exec_log, exec_done, ffr_queries, ffr_clock, m_profiler, profiler_thread_vars,
                 m_transient_buffer_ptr, create_ret, other_vars>>

\* allocTransient(size), called once the render task has created the buffer:
\* ffr::checkThread(); slice.offset = m_transient_buffer_offset
AllocCall(size) ==
    /\ pc_prod = "idle"
    /\ pc_render # "start"
    /\ DriverCall(FacadeDriverCalls("allocTransient"), "producer")
    /\ alloc_size' = size
    /\ slice' = [offset |-> m_transient_buffer_offset, size |-> 0, ptr |-> nullptr]
    /\ pc_prod' = "alloc_test"
    /\ UNCHANGED <<m_transient_buffer_offset, alloc_sum, slices>>
    /\ UNCHANGED alloc_frame

\* allocTransient(): the budget test, which reads the offset again, and slice.ptr
AllocTest ==
    /\ pc_prod = "alloc_test"
    /\ LET sz == AllocTransient_size(m_transient_buffer_offset, alloc_size)
       IN slice' = [slice EXCEPT !.size = sz,
                                 !.ptr = AllocTransient_ptr(m_transient_buffer_ptr,
                                                            [slice EXCEPT !.size = sz])]
    /\ pc_prod' = "alloc_add"
    /\ UNCHANGED <<m_transient_buffer_offset, alloc_size, alloc_sum, slices, ffr_calls,
                   ffr_ncalls>>
    /\ UNCHANGED alloc_frame

\* allocTransient(): m_transient_buffer_offset += slice.size, the read and the addition
AllocAdd ==
    /\ pc_prod = "alloc_add"
    /\ alloc_sum' = UintAdd(m_transient_buffer_offset, slice.size)
    /\ pc_prod' = "alloc_store"
    /\ UNCHANGED <<m_transient_buffer_offset, alloc_size, slice, slices, ffr_calls, ffr_ncalls>>
    /\ UNCHANGED alloc_frame

\* allocTransient(): m_transient_buffer_offset += slice.size, the write; return slice
AllocStore ==
    /\ pc_prod = "alloc_store"
    /\ m_transient_buffer_offset' = alloc_sum
    /\ slices' = Append(slices, [offset |-> slice.offset, size |-> slice.size,
                                  ptr |-> slice.ptr, asked |-> alloc_size,
                                  after |-> alloc_sum, swaps |-> SwapsExecuted,
                                  frames |-> frames_returned])
    /\ alloc_size' = 0
    /\ slice' = [offset |-> 0, size |-> 0, ptr |-> nullptr]
    /\ alloc_sum' = 0
    /\ pc_prod' = "idle"
    /\ UNCHANGED <<ffr_calls, ffr_ncalls>>
    /\ UNCHANGED alloc_frame

\* allocTransient() on a second thread, the same code at the same accesses
alloc2_frame == <<pc_prod, push_cmd, preconditions, push_ret, m_last_exec_job, calls, frames,
                  frames_returned, handles, jobs, next, deleted, signals, tasks, pc_render, cmd,
                  m_commands_lock, m_commands_semaphore, m_commands_head, m_commands_tail,
                  m_shutdown_requested, m_finished_semaphore, m_frame_semaphore, appended,
                  exec_log, exec_done, ffr_queries, ffr_clock, m_profiler, profiler_thread_vars,
                  m_transient_buffer_ptr, create_ret, alloc_size, slice, alloc_sum,
                  second_vars, defines_vars, state_vars, mem>>

\* allocTransient() calls that have been entered
AllocsBegun ==
    Len(slices) + (IF pc_prod \in {"alloc_test", "alloc_add", "alloc_store"} THEN 1 ELSE 0)
                + (IF pc_alloc2 # "idle" THEN 1 ELSE 0)

Alloc2Call(size) ==
    /\ pc_alloc2 = "idle"
    /\ pc_render # "start"
    /\ DriverCall(FacadeDriverCalls("allocTransient"), "second")
    /\ alloc_size2' = size
    /\ slice2' = [offset |-> m_transient_buffer_offset, size |-> 0, ptr |-> nullptr]
    /\ pc_alloc2' = "alloc_test"
    /\ UNCHANGED <<m_transient_buffer_offset, alloc_sum2, slices>>
    /\ UNCHANGED alloc2_frame

Alloc2Test ==
    /\ pc_alloc2 = "alloc_test"
    /\ LET sz == AllocTransient_size(m_transient_buffer_offset, alloc_size2)
       IN slice2' = [slice2 EXCEPT !.size = sz,
                                   !.ptr = AllocTransient_ptr(m_transient_buffer_ptr,
                                                              [slice2 EXCEPT !.size = sz])]
    /\ pc_alloc2' = "alloc_add"
    /\ UNCHANGED <<m_transient_buffer_offset, alloc_size2, alloc_sum2, slices, ffr_calls,
                   ffr_ncalls>>
    /\ UNCHANGED alloc2_frame

Alloc2Add ==
    /\ pc_alloc2 = "alloc_add"
    /\ alloc_sum2' = UintAdd(m_transient_buffer_offset, slice2.size)
    /\ pc_alloc2' = "alloc_store"
    /\ UNCHANGED <<m_transient_buffer_offset, alloc_size2, slice2, slices, ffr_calls,
                   ffr_ncalls>>
    /\ UNCHANGED alloc2_frame

Alloc2Store ==
    /\ pc_alloc2 = "alloc_store"
    /\ m_transient_buffer_offset' = alloc_sum2
    /\ slices' = Append(slices, [offset |-> slice2.offset, size |-> slice2.size,
                                  ptr |-> slice2.ptr, asked |-> alloc_size2,
                                  after |-> alloc_sum2, swaps |-> SwapsExecuted,
                                  frames |-> frames_returned])
    /\ alloc_size2' = 0
    /\ slice2' = [offset |-> 0, size |-> 0, ptr |-> nullptr]
    /\ alloc_sum2' = 0
    /\ pc_alloc2' = "idle"
    /\ UNCHANGED <<ffr_calls, ffr_ncalls>>
    /\ UNCHANGED alloc2_frame

\* ------------------------------------------------------- scheduler tasks
\* a queued task may start once its precondition signal is done
Runnable(t) == tasks[t].st = "queued" /\ SignalDone(tasks[t].precondition)

\* the task returned: the job system decrements its on-finish signal
TaskFinished(t, st) ==
    /\ tasks' = [tasks EXCEPT ![t] = [fn |-> tasks[t].fn, cmd |-> tasks[t].cmd,
                                      precondition |-> INVALID_HANDLE,
                                      dec_on_finish |-> INVALID_HANDLE, st |-> st]]
    /\ signals' = [signals EXCEPT ![tasks[t].dec_on_finish] = @ - 1]

worker_frame == <<pc_prod, push_cmd, preconditions, push_ret, m_last_exec_job, calls, frames,
                  frames_returned, handles, jobs, deleted, pc_render, cmd, m_shutdown_requested,
                  m_finished_semaphore, m_frame_semaphore, m_transient_buffer_offset, exec_log,
                  exec_done, driver_vars, m_profiler, profiler_thread_vars>>

\* setup task: cmd->setup() is entered
SetupBegin(t) ==
    /\ tasks[t].fn = "setup"
    /\ Runnable(t)
    /\ tasks' = [tasks EXCEPT ![t].st = "running"]
    /\ UNCHANGED <<signals, next, m_commands_lock, m_commands_semaphore, m_commands_head,
                   m_commands_tail, appended>>
    /\ UNCHANGED worker_frame
    /\ UNCHANGED <<transient_vars, create_ret, other_vars>>

\* setup task: cmd->setup() returns
SetupEnd(t) ==
    /\ tasks[t].fn = "setup"
    /\ tasks[t].st = "running"
    /\ TaskFinished(t, "done")
    /\ UNCHANGED <<next, m_commands_lock, m_commands_semaphore, m_commands_head,
                   m_commands_tail, appended>>
    /\ UNCHANGED worker_frame
    /\ UNCHANGED <<transient_vars, create_ret, other_vars>>

PushLockBroken(t) ==
    /\ tasks[t].fn = "push"
    /\ Runnable(t)
    /\ m_commands_lock' = "worker"
    /\ tasks' = [tasks EXCEPT ![t].st = "locked"]
    /\ UNCHANGED <<signals, next, m_commands_semaphore, m_commands_head, m_commands_tail,
                   appended>>
    /\ UNCHANGED worker_frame
    /\ UNCHANGED <<transient_vars, create_ret, other_vars>>

\* push task: MT::CriticalSectionLock lock(m_commands_lock)
PushLock(t) ==
    /\ tasks[t].fn = "push"
    /\ Runnable(t)
    /\ m_commands_lock = "free"
    /\ m_commands_lock' = "worker"
    /\ tasks' = [tasks EXCEPT ![t].st = "locked"]
    /\ UNCHANGED <<signals, next, m_commands_semaphore, m_commands_head, m_commands_tail,
                   appended>>
    /\ UNCHANGED worker_frame
    /\ UNCHANGED <<transient_vars, create_ret, other_vars>>

\* push task: append cmd under the lock, then leave the critical section
PushAppend(t) ==
    /\ tasks[t].fn = "push"
    /\ tasks[t].st = "locked"
    /\ LET q == QueueAppend(m_commands_head, m_commands_tail, next, tasks[t].cmd)
       IN /\ m_commands_head' = q.head
          /\ m_commands_tail' = q.tail
          /\ next' = q.next
    /\ appended' = Append(appended, tasks[t].cmd)
    /\ m_commands_lock' = "free"
    /\ tasks' = [tasks EXCEPT ![t].st = "unlocked"]
    /\ UNCHANGED <<signals, m_commands_semaphore>>
    /\ UNCHANGED worker_frame
    /\ UNCHANGED <<transient_vars, create_ret, other_vars>>

\* push task: m_commands_semaphore.signal(); delete job_data; return
PushSignal(t) ==
    /\ tasks[t].fn = "push"
    /\ tasks[t].st = "unlocked"
    /\ m_commands_semaphore' = Semaphore_signal(m_commands_semaphore)
    /\ TaskFinished(t, "done")
    /\ UNCHANGED <<next, m_commands_lock, m_commands_head, m_commands_tail, appended>>
    /\ UNCHANGED worker_frame
    /\ UNCHANGED <<transient_vars, create_ret, other_vars>>

\* --------------------------------------------------------- render thread
render_frame == <<pc_prod, push_cmd, preconditions, push_ret, m_last_exec_job, calls, frames,
                  frames_returned, handles, jobs, signals, tasks, appended>>

\* what GPUProfiler::frame() records about the frame it closes
FrameObserved(p, ts) ==
    /\ prof_frames' = prof_frames + 1
    /\ produced_log' = Append(produced_log, FrameReadback(p, ts).m_queries)
    /\ stored_log' = IF FrameHasRoom(p.m_history_wr, p.m_history_rd)
                      THEN Append(stored_log, FrameReadback(p, ts).m_queries)
                      ELSE stored_log

\* RenderTask::task() up to the drain loop
RenderStart ==
    /\ pc_render = "start"
    /\ DriverCall(StartupDriverCalls, "render")
    /\ m_transient_buffer_offset' = 0
    /\ m_transient_buffer_ptr' = MappedPtr
    /\ UNCHANGED <<alloc_size, slice, alloc_sum, slices, create_ret, other_vars>>
    /\ pc_render' = "loop"
    /\ UNCHANGED <<next, deleted, cmd, m_commands_lock, m_commands_semaphore, m_commands_head,
                   m_commands_tail, m_shutdown_requested, m_finished_semaphore,
                   m_frame_semaphore, exec_log, exec_done, ffr_queries, ffr_clock,
                   m_profiler, profiler_thread_vars>>
    /\ UNCHANGED render_frame

RenderWaitBroken ==
    /\ pc_render = "loop"
    /\ ~m_shutdown_requested
    /\ pc_render' = "lock"
    /\ UNCHANGED <<next, deleted, cmd, m_commands_lock, m_commands_head, m_commands_tail,
                   m_shutdown_requested, m_finished_semaphore, m_frame_semaphore,
                   m_transient_buffer_offset, exec_log, exec_done, driver_vars, m_profiler,
                   profiler_thread_vars, m_commands_semaphore>>
    /\ UNCHANGED render_frame
    /\ UNCHANGED <<transient_vars, create_ret, other_vars>>

\* while (!m_shutdown_requested) { m_commands_semaphore.wait();
RenderWait ==
    /\ pc_render = "loop"
    /\ ~m_shutdown_requested
    /\ Semaphore_canWait(m_commands_semaphore)
    /\ m_commands_semaphore' = Semaphore_wait(m_commands_semaphore)
    /\ pc_render' = "lock"
    /\ UNCHANGED <<next, deleted, cmd, m_commands_lock, m_commands_head, m_commands_tail,
                   m_shutdown_requested, m_finished_semaphore, m_frame_semaphore,
                   m_transient_buffer_offset, exec_log, exec_done, driver_vars, m_profiler,
                   profiler_thread_vars>>
    /\ UNCHANGED render_frame
    /\ UNCHANGED <<transient_vars, create_ret, other_vars>>

\* the loop condition fails: m_shutdown_requested is set
RenderExit ==
    /\ pc_render = "loop"
    /\ m_shutdown_requested
    /\ pc_render' = "teardown"
    /\ UNCHANGED <<next, deleted, cmd, m_commands_lock, m_commands_semaphore, m_commands_head,
                   m_commands_tail, m_shutdown_requested, m_finished_semaphore,
                   m_frame_semaphore, m_transient_buffer_offset, exec_log, exec_done,
                   driver_vars, m_profiler, profiler_thread_vars>>
    /\ UNCHANGED render_frame
    /\ UNCHANGED <<transient_vars, create_ret, other_vars>>

\* MT::CriticalSectionLock lock(m_commands_lock)
RenderLock ==
    /\ pc_render = "lock"
    /\ m_commands_lock = "free"
    /\ m_commands_lock' = "render"
    /\ pc_render' = "pop"
    /\ UNCHANGED <<next, deleted, cmd, m_commands_semaphore, m_commands_head, m_commands_tail,
                   m_shutdown_requested, m_finished_semaphore, m_frame_semaphore,
                   m_transient_buffer_offset, exec_log, exec_done, driver_vars, m_profiler,
                   profiler_thread_vars>>
    /\ UNCHANGED render_frame
    /\ UNCHANGED <<transient_vars, create_ret, other_vars>>

\* detach the head under the lock, leave the critical section; if (!cmd) break
RenderPop ==
    /\ pc_render = "pop"
    /\ LET q == QueuePop(m_commands_head, m_commands_tail, next)
       IN /\ cmd' = q.cmd
          /\ m_commands_head' = q.head
          /\ m_commands_tail' = q.tail
          /\ next' = q.next
          /\ pc_render' = IF q.cmd = nullptr THEN "teardown" ELSE "execute"
    /\ m_commands_lock' = "free"
    /\ UNCHANGED <<deleted, m_commands_semaphore, m_shutdown_requested, m_finished_semaphore,
                   m_frame_semaphore, m_transient_buffer_offset, exec_log, exec_done,
                   driver_vars, m_profiler, profiler_thread_vars>>
    /\ UNCHANGED render_frame
    /\ UNCHANGED <<transient_vars, create_ret, other_vars>>

\* cmd->execute() is entered; SwapCmd::execute() starts with m_frame_semaphore.signal()
ExecuteBeginBroken ==
    /\ pc_render = "execute"
    /\ exec_log' = Append(exec_log, cmd)
    /\ m_frame_semaphore' = m_frame_semaphore
    /\ pc_render' = "executing"
    /\ UNCHANGED <<next, deleted, cmd, m_commands_lock, m_commands_semaphore, m_commands_head,
                   m_commands_tail, m_shutdown_requested, m_finished_semaphore,
                   m_transient_buffer_offset, exec_done, driver_vars, m_profiler,
                   profiler_thread_vars>>
    /\ UNCHANGED render_frame
    /\ UNCHANGED <<transient_vars, create_ret, other_vars>>

ExecuteBegin ==
    /\ pc_render = "execute"
    /\ exec_log' = Append(exec_log, cmd)
    /\ m_frame_semaphore' = IF jobs[cmd].kind = "swap"
                             THEN Semaphore_signal(m_frame_semaphore)
                             ELSE m_frame_semaphore
    /\ pc_render' = "executing"
    /\ UNCHANGED <<next, deleted, cmd, m_commands_lock, m_commands_semaphore, m_commands_head,
                   m_commands_tail, m_shutdown_requested, m_finished_semaphore,
                   m_transient_buffer_offset, exec_done, driver_vars, m_profiler,
                   profiler_thread_vars>>
    /\ UNCHANGED render_frame
    /\ UNCHANGED <<transient_vars, create_ret, other_vars>>

\* Cmd::execute() of a create job: the driver creation call reads memory.data, then
\* if (memory.own) renderer->free(memory)
MemAfterExecute(m) ==
    [m EXCEPT !.read_after_free = @ \/ m.freed > 0,
              !.read = TRUE,
              !.freed = IF m.own THEN @ + 1 ELSE @]

UploadedStateBroken(c) == m_global_state

\* pushSetGlobalStateCommand()'s Cmd::execute(): the &state it hands to ffr::update
UploadedState(c) == jobs[c].state

\* the rest of cmd->execute(), by job kind, up to its return
ExecuteEnd ==
    /\ pc_render = "executing"
    /\ exec_done' = exec_done \cup {cmd}
    /\ pc_render' = "delete"
    /\ IF jobs[cmd].kind = "swap"
       THEN \* ffr::swapBuffers(); m_profiler.frame(); m_transient_buffer_offset = 0
            /\ DriverCall(ExecuteDriverCalls("swap")
                            \cup (IF m_profiler.m_queries = <<>> THEN {} ELSE {"getQueryResult"}),
                          "render")
            /\ m_profiler' = GPUProfiler_frame(m_profiler, ffr_queries)
            /\ FrameObserved(m_profiler, ffr_queries)
            /\ m_transient_buffer_offset' = 0
            /\ UNCHANGED <<m_shutdown_requested, m_commands_semaphore, pc_frame, pc_get,
                           results, get_ret, returned_log>>
       ELSE IF jobs[cmd].kind = "shutdown"
       THEN \* m_shutdown_requested = true; m_commands_semaphore.signal()
            /\ m_shutdown_requested' = TRUE
            /\ m_commands_semaphore' = Semaphore_signal(m_commands_semaphore)
            /\ UNCHANGED <<ffr_calls, ffr_ncalls, m_profiler, m_transient_buffer_offset,
                           profiler_thread_vars>>
       ELSE /\ DriverCall(ExecuteDriverCalls(jobs[cmd].kind), "render")
            /\ UNCHANGED <<m_shutdown_requested, m_commands_semaphore, m_profiler,
                           m_transient_buffer_offset, profiler_thread_vars>>
    /\ ffr_uniforms' = IF jobs[cmd].kind = "setGlobalState"
                        THEN UploadedState(cmd)
                        ELSE ffr_uniforms
    /\ UNCHANGED <<next, deleted, cmd, m_commands_lock, m_commands_head, m_commands_tail,
                   m_finished_semaphore, m_frame_semaphore, exec_log, ffr_queries, ffr_clock>>
    /\ UNCHANGED render_frame
    /\ mem' = IF jobs[cmd].kind \in CreateKinds
                THEN [mem EXCEPT ![jobs[cmd].memory] = MemAfterExecute(@)]
                ELSE mem
    /\ UNCHANGED <<transient_vars, create_ret, second_vars, alloc2_vars, defines_vars,
                   m_global_state, set_log, state_ret>>

\* LUMIX_DELETE(m_renderer.getAllocator(), cmd)
RenderDelete ==
    /\ pc_render = "delete"
    /\ deleted' = deleted \cup {cmd}
    /\ pc_render' = "loop"
    /\ UNCHANGED <<next, cmd, m_commands_lock, m_commands_semaphore, m_commands_head,
                   m_commands_tail, m_shutdown_requested, m_finished_semaphore,
                   m_frame_semaphore, m_transient_buffer_offset, exec_log, exec_done,
                   driver_vars, m_profiler, profiler_thread_vars>>
    /\ UNCHANGED render_frame
    /\ UNCHANGED <<transient_vars, create_ret, other_vars>>

\* after the loop: ffr::destroy(m_transient_buffer); m_profiler.clear(); ffr::shutdown();
\* m_finished_semaphore.signal()
RenderTeardownBroken ==
    /\ pc_render = "teardown"
    /\ DriverCall(TeardownDriverCalls, "render")
    /\ m_profiler' = [m_profiler EXCEPT !.m_pool = <<>>]
    /\ m_finished_semaphore' = m_finished_semaphore
    /\ pc_render' = "finished"
    /\ UNCHANGED <<next, deleted, cmd, m_commands_lock, m_commands_semaphore, m_commands_head,
                   m_commands_tail, m_shutdown_requested, m_frame_semaphore,
                   m_transient_buffer_offset, exec_log, exec_done, ffr_queries,
                   ffr_clock, profiler_thread_vars>>
    /\ UNCHANGED render_frame
    /\ UNCHANGED <<transient_vars, create_ret, other_vars>>

RenderTeardown ==
    /\ pc_render = "teardown"
    /\ DriverCall(TeardownDriverCalls, "render")
    /\ m_profiler' = [m_profiler EXCEPT !.m_pool = <<>>]
    /\ m_finished_semaphore' = Semaphore_signal(m_finished_semaphore)
    /\ pc_render' = "finished"
    /\ UNCHANGED <<next, deleted, cmd, m_commands_lock, m_commands_semaphore, m_commands_head,
                   m_commands_tail, m_shutdown_requested, m_frame_semaphore,
                   m_transient_buffer_offset, exec_log, exec_done, ffr_queries,
                   ffr_clock, profiler_thread_vars>>
    /\ UNCHANGED render_frame
    /\ UNCHANGED <<transient_vars, create_ret, other_vars>>

\* ------------------------------------------------------------------ Spec
Next ==
    \/ \E kind \in CreateKinds : CreateInvalid(kind, TRUE)
    \/ \E kind \in CreateKinds : Create(kind, TRUE)
    \/ \E h \in 1..handles : Destroy(h)
    \/ PushSecondRun
    \/ (frames < MaxFrames /\ FramePushSwap)
    \/ FrameWaitSemaphore
    \/ FrameWaitJob
    \/ DtorShutdown
    \/ DtorWaitJob
    \/ DtorWaitFinished
    \/ \E t \in DOMAIN tasks : SetupBegin(t)
    \/ \E t \in DOMAIN tasks : SetupEnd(t)
    \/ \E t \in DOMAIN tasks : PushLock(t)
    \/ \E t \in DOMAIN tasks : PushAppend(t)
    \/ \E t \in DOMAIN tasks : PushSignal(t)
    \/ RenderStart
    \/ RenderWait
    \/ RenderExit
    \/ RenderLock
    \/ RenderPop
    \/ ExecuteBegin
    \/ ExecuteEnd
    \/ RenderDelete
    \/ RenderTeardown

Spec == Init /\ [][Next]_vars

\* ------------------------------------------------------------ SpecPacing
\* the pipeline driven by frame() calls and the destructor only
NextPacing ==
    \/ PushSecondRun
    \/ (frames < MaxPacingFrames /\ FramePushSwap)
    \/ FrameWaitSemaphore
    \/ FrameWaitJob
    \/ DtorShutdown
    \/ DtorWaitJob
    \/ DtorWaitFinished
    \/ \E t \in DOMAIN tasks : SetupBegin(t)
    \/ \E t \in DOMAIN tasks : SetupEnd(t)
    \/ \E t \in DOMAIN tasks : PushLock(t)
    \/ \E t \in DOMAIN tasks : PushAppend(t)
    \/ \E t \in DOMAIN tasks : PushSignal(t)
    \/ RenderStart
    \/ RenderWait
    \/ RenderExit
    \/ RenderLock
    \/ RenderPop
    \/ ExecuteBegin
    \/ ExecuteEnd
    \/ RenderDelete
    \/ RenderTeardown

SpecPacing == Init /\ [][NextPacing]_vars

\* --------------------------------------------------------- SpecTransient
\* allocTransient() and frame() calls of the producer against the pipeline
NextTransient ==
    \/ \E size \in AllocSizes : (Len(slices) < MaxAllocs /\ AllocCall(size))
    \/ AllocTest
    \/ AllocAdd
    \/ AllocStore
    \/ PushSecondRun
    \/ (frames < MaxTransientFrames /\ FramePushSwap)
    \/ FrameWaitSemaphore
    \/ FrameWaitJob
    \/ \E t \in DOMAIN tasks : SetupBegin(t)
    \/ \E t \in DOMAIN tasks : SetupEnd(t)
    \/ \E t \in DOMAIN tasks : PushLock(t)
    \/ \E t \in DOMAIN tasks : PushAppend(t)
    \/ \E t \in DOMAIN tasks : PushSignal(t)
    \/ RenderStart
    \/ RenderWait
    \/ RenderLock
    \/ RenderPop
    \/ ExecuteBegin
    \/ ExecuteEnd
    \/ RenderDelete

SpecTransient == Init /\ [][NextTransient]_vars

\* the same with sizes from the whole range of uint
NextTransientUint ==
    \/ \E size \in UintSizes : (Len(slices) < MaxAllocs /\ AllocCall(size))
    \/ NextTransient

SpecTransientUint == Init /\ [][NextTransientUint]_vars

\* ------------------------------------------------------- SpecGlobalState
\* setGlobalState() and getGlobalState() calls of the producer against the pipeline
NextGlobalState ==
    \/ \E state \in GlobalStates : (Len(set_log) < MaxStateCalls /\ SetGlobalState(state))
    \/ GetGlobalState
    \/ PushSecondRun
    \/ \E t \in DOMAIN tasks : SetupBegin(t)
    \/ \E t \in DOMAIN tasks : SetupEnd(t)
    \/ \E t \in DOMAIN tasks : PushLock(t)
    \/ \E t \in DOMAIN tasks : PushAppend(t)
    \/ \E t \in DOMAIN tasks : PushSignal(t)
    \/ RenderStart
    \/ RenderWait
    \/ RenderLock
    \/ RenderPop
    \/ ExecuteBegin
    \/ ExecuteEnd
    \/ RenderDelete

SpecGlobalState == Init /\ [][NextGlobalState]_vars

\* ----------------------------------------------------------- SpecDefines
\* getShaderDefineIdx() calls, from one thread
NextDefines == \E define \in DefineNames : \E build \in Builds : GetShaderDefineIdx(define, build)

SpecDefines == Init /\ [][NextDefines]_vars

\* ------------------------------------------------------ SpecAllocThreads
\* allocTransient() calls of two threads, with no swap between them
NextAllocThreads ==
    \/ RenderStart
    \/ \E size \in AllocSizes : (AllocsBegun < MaxAllocs /\ AllocCall(size))
    \/ AllocTest
    \/ AllocAdd
    \/ AllocStore
    \/ \E size \in AllocSizes : (AllocsBegun < MaxAllocs /\ Alloc2Call(size))
    \/ Alloc2Test
    \/ Alloc2Add
    \/ Alloc2Store

SpecAllocThreads == Init /\ [][NextAllocThreads]_vars

\* ------------------------------------------------------ SpecTwoProducers
\* create calls of two threads against the pipeline
NextTwoProducers ==
    \/ Create("createBuffer", TRUE)
    \/ PushSecondRun
    \/ Create2("createTexture")
    \/ Push2SecondRun
    \/ \E t \in DOMAIN tasks : SetupBegin(t)
    \/ \E t \in DOMAIN tasks : SetupEnd(t)
    \/ \E t \in DOMAIN tasks : PushLock(t)
    \/ \E t \in DOMAIN tasks : PushAppend(t)
    \/ \E t \in DOMAIN tasks : PushSignal(t)
    \/ RenderStart
    \/ RenderWait
    \/ RenderLock
    \/ RenderPop
    \/ ExecuteBegin
    \/ ExecuteEnd
    \/ RenderDelete

SpecTwoProducers == Init /\ [][NextTwoProducers]_vars

\* -------------------------------------------------------------- fairness
\* a thread that can take its next step takes it: the producer once it is inside push(),
\* frame() or the destructor (the calls themselves are the caller's choice), every
\* scheduler task (setup() terminates, the lock is released), and the render thread
\* (execute() terminates)
Fairness ==
    /\ WF_vars(PushSecondRun)
    /\ WF_vars(FrameWaitSemaphore)
    /\ WF_vars(FrameWaitJob)
    /\ WF_vars(DtorWaitJob)
    /\ WF_vars(DtorWaitFinished)
    /\ WF_vars(\E t \in DOMAIN tasks : SetupBegin(t))
    /\ WF_vars(\E t \in DOMAIN tasks : SetupEnd(t))
    /\ WF_vars(\E t \in DOMAIN tasks : PushLock(t))
    /\ WF_vars(\E t \in DOMAIN tasks : PushAppend(t))
    /\ WF_vars(\E t \in DOMAIN tasks : PushSignal(t))
    /\ WF_vars(RenderStart)
    /\ WF_vars(RenderWait)
    /\ WF_vars(RenderExit)
    /\ WF_vars(RenderLock)
    /\ WF_vars(RenderPop)
    /\ WF_vars(ExecuteBegin)
    /\ WF_vars(ExecuteEnd)
    /\ WF_vars(RenderDelete)
    /\ WF_vars(RenderTeardown)

\* frame() calls and the destructor, with fair threads
SpecPacingFair == Init /\ [][NextPacing]_vars /\ Fairness

\* create calls, frame() calls and the destructor, with fair threads
NextLive ==
    \/ (calls < MaxLiveCalls /\ Create("createBuffer", TRUE))
    \/ (frames < MaxLiveFrames /\ FramePushSwap)
    \/ PushSecondRun
    \/ FrameWaitSemaphore
    \/ FrameWaitJob
    \/ DtorShutdown
    \/ DtorWaitJob
    \/ DtorWaitFinished
    \/ \E t \in DOMAIN tasks : SetupBegin(t)
    \/ \E t \in DOMAIN tasks : SetupEnd(t)
    \/ \E t \in DOMAIN tasks : PushLock(t)
    \/ \E t \in DOMAIN tasks : PushAppend(t)
    \/ \E t \in DOMAIN tasks : PushSignal(t)
    \/ RenderStart
    \/ RenderWait
    \/ RenderExit
    \/ RenderLock
    \/ RenderPop
    \/ ExecuteBegin
    \/ ExecuteEnd
    \/ RenderDelete
    \/ RenderTeardown

SpecLive == Init /\ [][NextLive]_vars /\ Fairness

\* ------------------------------------------------------------ SpecMemRef
\* create calls with owned and with borrowed MemRefs, against the pipeline and the
\* destructor
NextMemRef ==
    \/ \E kind \in CreateKinds : \E own \in BOOLEAN : CreateInvalid(kind, own)
    \/ \E kind \in CreateKinds : \E own \in BOOLEAN : Create(kind, own)
    \/ PushSecondRun
    \/ DtorShutdown
    \/ DtorWaitJob
    \/ DtorWaitFinished
    \/ \E t \in DOMAIN tasks : SetupBegin(t)
    \/ \E t \in DOMAIN tasks : SetupEnd(t)
    \/ \E t \in DOMAIN tasks : PushLock(t)
    \/ \E t \in DOMAIN tasks : PushAppend(t)
    \/ \E t \in DOMAIN tasks : PushSignal(t)
    \/ RenderStart
    \/ RenderWait
    \/ RenderExit
    \/ RenderLock
    \/ RenderPop
    \/ ExecuteBegin
    \/ ExecuteEnd
    \/ RenderDelete
    \/ RenderTeardown

SpecMemRef == Init /\ [][NextMemRef]_vars

\* ---------------------------------------------------------- SpecProfiler
\* GPUProfiler::allocQuery(): the handle it returns
AllocQuery_handle(p) == IF p.m_pool # <<>> THEN p.m_pool[Len(p.m_pool)] ELSE Len(ffr_queries) + 1

AllocQuery_poolBroken(p) == p.m_pool

\* GPUProfiler::allocQuery(): the pool it leaves
AllocQuery_pool(p) == IF p.m_pool # <<>> THEN SubSeq(p.m_pool, 1, Len(p.m_pool) - 1) ELSE p.m_pool

\* beginQuery(name) / endQuery() on the render thread: append a record, allocQuery(),
\* ffr::queryTimestamp(q.handle)
EmitQuery(name, is_end) ==
    /\ pc_frame = "idle"
    /\ ffr_clock < MaxQueries
    /\ LET h == AllocQuery_handle(m_profiler)
       IN /\ m_profiler' = [m_profiler EXCEPT
                                !.m_queries = Append(@, [name |-> name, is_end |-> is_end,
                                                         handle |-> h, result |-> 0]),
                                !.m_pool = AllocQuery_pool(m_profiler)]
          /\ ffr_queries' = IF h > Len(ffr_queries)
                            THEN Append(ffr_queries, ffr_clock + 1)
                            ELSE [ffr_queries EXCEPT ![h] = ffr_clock + 1]
          /\ ffr_clock' = ffr_clock + 1
          /\ DriverCall((IF m_profiler.m_pool = <<>> THEN {"createQuery"} ELSE {})
                          \cup {"queryTimestamp"}, "render")
    /\ UNCHANGED <<pipeline_vars, profiler_thread_vars>>
    /\ UNCHANGED <<transient_vars, create_ret, other_vars>>

OpenBlocks(q) == Cardinality({i \in DOMAIN q : ~q[i].is_end})
                    - Cardinality({i \in DOMAIN q : q[i].is_end})

BeginQuery == EmitQuery("pass", FALSE)

EndQuery == OpenBlocks(m_profiler.m_queries) > 0 /\ EmitQuery("", TRUE)

\* frame(): read back every query and return its handle to the pool
FrameBegin ==
    /\ pc_frame = "idle"
    /\ prof_frames < MaxProfFrames
    /\ m_profiler' = FrameReadback(m_profiler, ffr_queries)
    /\ produced_log' = Append(produced_log, FrameReadback(m_profiler, ffr_queries).m_queries)
    /\ DriverCall(IF m_profiler.m_queries = <<>> THEN {} ELSE {"getQueryResult"}, "render")
    /\ pc_frame' = "check"
    /\ UNCHANGED <<pipeline_vars, ffr_queries, ffr_clock, pc_get, results, prof_frames,
                   get_ret, stored_log, returned_log>>
    /\ UNCHANGED <<transient_vars, create_ret, other_vars>>

\* frame(): if (m_history_wr < m_history_rd + m_history.size())
FrameCheck ==
    /\ pc_frame = "check"
    /\ pc_frame' = IF FrameHasRoom(m_profiler.m_history_wr, m_profiler.m_history_rd)
                    THEN "swap" ELSE "finish"
    /\ UNCHANGED <<pipeline_vars, driver_vars, m_profiler, pc_get, results, prof_frames,
                   get_ret, stored_log, returned_log, produced_log>>
    /\ UNCHANGED <<transient_vars, create_ret, other_vars>>

\* frame(): m_history[m_history_wr % m_history.size()].swap(m_queries)
FrameSwapSlot ==
    /\ pc_frame = "swap"
    /\ m_profiler' = FrameSwap(m_profiler, m_profiler.m_history_wr)
    /\ stored_log' = Append(stored_log, m_profiler.m_queries)
    /\ pc_frame' = "inc"
    /\ UNCHANGED <<pipeline_vars, driver_vars, pc_get, results, prof_frames, get_ret,
                   returned_log, produced_log>>
    /\ UNCHANGED <<transient_vars, create_ret, other_vars>>

\* frame(): MT::atomicIncrement(&m_history_wr)
FrameIncrement ==
    /\ pc_frame = "inc"
    /\ m_profiler' = FrameIncWr(m_profiler)
    /\ pc_frame' = "finish"
    /\ UNCHANGED <<pipeline_vars, driver_vars, pc_get, results, prof_frames, get_ret,
                   stored_log, returned_log, produced_log>>
    /\ UNCHANGED <<transient_vars, create_ret, other_vars>>

\* frame(): m_queries.clear(); the two increments of m_frame; return
FrameEnd ==
    /\ pc_frame = "finish"
    /\ m_profiler' = FrameFinish(m_profiler)
    /\ prof_frames' = prof_frames + 1
    /\ pc_frame' = "idle"
    /\ UNCHANGED <<pipeline_vars, driver_vars, pc_get, results, get_ret, stored_log,
                   returned_log, produced_log>>
    /\ UNCHANGED <<transient_vars, create_ret, other_vars>>

\* getResults(): if (m_history_rd == m_history_wr) return false
GetResultsCheck ==
    /\ pc_get = "idle"
    /\ IF GetResultsEmpty(m_profiler.m_history_rd, m_profiler.m_history_wr)
       THEN get_ret' = "false" /\ pc_get' = "idle"
       ELSE get_ret' = "none" /\ pc_get' = "swap"
    /\ UNCHANGED <<pipeline_vars, driver_vars, m_profiler, pc_frame, results, prof_frames,
                   stored_log, returned_log, produced_log>>
    /\ UNCHANGED <<transient_vars, create_ret, other_vars>>

\* getResults(): results->clear(); results->swap(m_history[m_history_rd % m_history.size()])
GetResultsSwap ==
    /\ pc_get = "swap"
    /\ results' = m_profiler.m_history[SlotOf(m_profiler.m_history_rd)]
    /\ m_profiler' = [m_profiler EXCEPT !.m_history[SlotOf(m_profiler.m_history_rd)] = <<>>]
    /\ pc_get' = "inc"
    /\ UNCHANGED <<pipeline_vars, driver_vars, pc_frame, prof_frames, get_ret, stored_log,
                   returned_log, produced_log>>
    /\ UNCHANGED <<transient_vars, create_ret, other_vars>>

\* getResults(): MT::atomicIncrement(&m_history_rd); return true
GetResultsIncrement ==
    /\ pc_get = "inc"
    /\ m_profiler' = [m_profiler EXCEPT !.m_history_rd = atomicIncrement(@)]
    /\ get_ret' = "true"
    /\ returned_log' = Append(returned_log, results)
    /\ pc_get' = "idle"
    /\ UNCHANGED <<pipeline_vars, driver_vars, pc_frame, results, prof_frames, stored_log,
                   produced_log>>
    /\ UNCHANGED <<transient_vars, create_ret, other_vars>>

NextProfiler ==
    \/ BeginQuery
    \/ EndQuery
    \/ FrameBegin
    \/ FrameCheck
    \/ FrameSwapSlot
    \/ FrameIncrement
    \/ FrameEnd
    \/ GetResultsCheck
    \/ GetResultsSwap
    \/ GetResultsIncrement

SpecProfiler == Init /\ [][NextProfiler]_vars

\* ---------------------------------------------------------------- claims
SetupReturned(j) == SetupTask(j) \in DOMAIN tasks /\ tasks[SetupTask(j)].st = "done"

SwapJobs == {j \in DOMAIN jobs : jobs[j].kind = "swap"}

\* C1: execute() calls happen in submission order, and the execute() of one
\* submission has returned before the execute() of the next one begins.
C1_ExecutionOrder ==
    /\ \A i \in DOMAIN exec_log : exec_log[i] = i
    /\ \A i \in DOMAIN exec_log : i < Len(exec_log) => exec_log[i] \in exec_done
    /\ pc_render = "executing" => cmd = exec_log[Len(exec_log)] /\ cmd \notin exec_done

C1_Witness ==
    /\ Len(exec_log) >= 3
    /\ {1, 2} \subseteq exec_done
    /\ pc_render = "executing"
    /\ \E t \in DOMAIN tasks : tasks[t].st = "running"

\* C2: a job is appended to the command queue, and so executed, only after
\* its setup() has returned.
C2_SetupBeforeAppend ==
    /\ \A i \in DOMAIN appended : SetupReturned(appended[i])
    /\ \A t \in DOMAIN tasks :
          (tasks[t].fn = "push" /\ tasks[t].st # "queued") => SetupReturned(tasks[t].cmd)
    /\ \A i \in DOMAIN exec_log : SetupReturned(exec_log[i])

C2_Witness ==
    /\ Len(appended) >= 2
    /\ Len(exec_log) >= 1
    /\ \E t \in DOMAIN tasks : tasks[t].fn = "setup" /\ tasks[t].st = "running"

FacadeSideDriverCalls == {"preinit", "allocBufferHandle", "allocTextureHandle", "getTextureInfo",
                          "checkThread"}

C4_AtMostTwoSwapsNotExecuted ==
    pc_prod = "idle" => Cardinality(SwapJobs \ exec_done) <= 2

\* C4 amended: when frame() has returned, at most two swap jobs have been
\* pushed whose execute() has not begun (and at most three whose execute()
\* has not returned); frame() has returned at most twice more often than a
\* swap job's execute() has begun.
C4_FramePacing ==
    /\ pc_prod = "idle" => Cardinality(SwapJobs \ Range(exec_log)) <= 2
    /\ pc_prod = "idle" => Cardinality(SwapJobs \ exec_done) <= 3
    /\ frames_returned <= 2 + Cardinality(SwapJobs \cap Range(exec_log))

C4_Witness ==
    /\ pc_prod = "frame_semaphore"
    /\ frames_returned = 2
    /\ m_frame_semaphore.count = 0
    /\ pc_render = "executing"
    /\ jobs[cmd].kind = "swap"

\* C5: a job that uses a handle begins execute() only after the creation
\* job of that handle has executed.
C5_CreatedBeforeUse ==
    \A i \in DOMAIN exec_log :
        jobs[exec_log[i]].kind = "destroy" =>
            \E k \in 1..(i - 1) :
                /\ jobs[exec_log[k]].kind \in CreateKinds
                /\ jobs[exec_log[k]].handle = jobs[exec_log[i]].handle
                /\ exec_log[k] \in exec_done

C5_Witness ==
    \E i \in DOMAIN exec_log : jobs[exec_log[i]].kind = "destroy" /\ exec_log[i] \in exec_done

ShutdownJobs == {j \in DOMAIN jobs : jobs[j].kind = "shutdown"}

\* C6: when the render thread has left its drain loop, every job submitted
\* before the shutdown job has been executed.
C6_ShutdownDrains ==
    pc_render \in {"teardown", "finished"} =>
        /\ ShutdownJobs # {}
        /\ \A s \in ShutdownJobs : \A j \in 1..(s - 1) : j \in exec_done

C6_Witness ==
    /\ pc_render = "teardown"
    /\ \E s \in ShutdownJobs : s >= 4

Quiescent ==
    /\ pc_render = "finished"
    /\ <<"shutdown", "render">> \in ffr_calls
    /\ \A t \in DOMAIN tasks : tasks[t].st = "done"
    /\ Len(tasks) = 2 * Len(jobs)
    /\ m_commands_lock = "free"

\* C7: once the destructor has returned, the render thread has shut the
\* driver down and finished, no scheduler task is pending or running, and
\* from then on no driver call, setup() or execute() happens.
C7_ShutdownQuiescence ==
    /\ [](pc_prod = "destroyed" => Quiescent)
    /\ [][pc_prod = "destroyed" =>
            /\ ffr_ncalls' = ffr_ncalls
            /\ tasks' = tasks
            /\ exec_log' = exec_log
            /\ exec_done' = exec_done]_vars

C7_Witness ==
    /\ pc_prod = "destroyed"
    /\ Len(exec_log) >= 4

\* C8: the history cursors satisfy m_history_rd <= m_history_wr and
\* m_history_wr - m_history_rd <= 3 in every state.
C8_RingBounds ==
    /\ m_profiler.m_history_rd <= m_profiler.m_history_wr
    /\ m_profiler.m_history_wr - m_profiler.m_history_rd <= HistorySize

C8_Witness ==
    /\ m_profiler.m_history_wr - m_profiler.m_history_rd = HistorySize
    /\ m_profiler.m_history_rd > 0
    /\ pc_frame = "check"
    /\ pc_get = "swap"

\* C9: the frames getResults() hands out are the frames frame() stored, in
\* the order they were stored, each one once.
C9_ResultsInStoredOrder ==
    /\ Len(returned_log) <= Len(stored_log)
    /\ returned_log = SubSeq(stored_log, 1, Len(returned_log))
    /\ Len(returned_log) = m_profiler.m_history_rd
    /\ pc_get = "inc" => results = stored_log[Len(returned_log) + 1]

C9_Witness ==
    /\ Len(returned_log) >= 3
    /\ returned_log[1] # <<>>
    /\ returned_log[2] # returned_log[1]
    /\ returned_log[3] # returned_log[2]

\* C10: with three stored frames unread, frame() changes neither the write
\* cursor nor the history and discards its records; with no read at all the
\* history keeps exactly the first three frames.
C10_FullHistoryKept ==
    /\ []((m_profiler.m_history_rd = 0 /\ pc_get = "idle" /\ prof_frames >= HistorySize) =>
            /\ m_profiler.m_history_wr = HistorySize
            /\ m_profiler.m_history = SubSeq(produced_log, 1, HistorySize))
    /\ [][(/\ pc_frame = "check"
            /\ pc_frame' # "check"
            /\ m_profiler.m_history_wr - m_profiler.m_history_rd = HistorySize) =>
               (pc_frame' = "finish" /\ m_profiler' = m_profiler)]_vars
    /\ [][(pc_frame = "finish" /\ pc_frame' = "idle") =>
               /\ m_profiler'.m_history_wr = m_profiler.m_history_wr
               /\ m_profiler'.m_history = m_profiler.m_history
               /\ m_profiler'.m_queries = <<>>]_vars

C10_Witness ==
    /\ prof_frames >= HistorySize + 1
    /\ m_profiler.m_history_rd = 0
    /\ pc_get = "idle"
    /\ produced_log[HistorySize + 1] # <<>>
    /\ m_profiler.m_history[1] # <<>>

\* history slots the next frame() may still write
WritableSlots(p) == HistorySize - (p.m_history_wr - p.m_history_rd)

\* a step of getResults()
GetResultsStep == pc_get' # pc_get \/ get_ret' # get_ret

\* C11: getGPUTimings(out) never blocks; with no stored frame unread it
\* returns false and changes neither the cursors, the history nor out;
\* otherwise it returns true, advances the read cursor by exactly 1 and
\* makes exactly one more slot writable for the next frame().
C11_GetTimingsNonBlocking ==
    /\ [](/\ pc_get = "idle" => ENABLED GetResultsCheck
          /\ pc_get = "swap" => ENABLED GetResultsSwap
          /\ pc_get = "inc" => ENABLED GetResultsIncrement)
    /\ [][(/\ pc_get = "idle"
            /\ GetResultsEmpty(m_profiler.m_history_rd, m_profiler.m_history_wr)
            /\ GetResultsStep) =>
               /\ get_ret' = "false"
               /\ pc_get' = "idle"
               /\ m_profiler' = m_profiler
               /\ results' = results]_vars
    /\ [][(/\ pc_get = "idle"
            /\ ~GetResultsEmpty(m_profiler.m_history_rd, m_profiler.m_history_wr)
            /\ GetResultsStep) =>
               (pc_get' = "swap" /\ get_ret' = "none")]_vars
    /\ [][(pc_get = "inc" /\ GetResultsStep) =>
               /\ get_ret' = "true"
               /\ pc_get' = "idle"
               /\ m_profiler'.m_history_rd = m_profiler.m_history_rd + 1
               /\ m_profiler'.m_history_wr = m_profiler.m_history_wr
               /\ WritableSlots(m_profiler') = WritableSlots(m_profiler) + 1
               /\ FrameHasRoom(m_profiler'.m_history_wr, m_profiler'.m_history_rd)]_vars
    /\ [][m_profiler'.m_history_rd # m_profiler.m_history_rd =>
               (pc_get = "inc" /\ GetResultsStep)]_vars

C11_Witness ==
    /\ get_ret = "false"
    /\ pc_get = "idle"
    /\ m_profiler.m_history_rd >= 2
    /\ m_profiler.m_history_rd = m_profiler.m_history_wr
    /\ results # <<>>

\* the step in which SwapCmd::execute() resets the offset and returns
SwapResetStep == pc_render = "executing" /\ jobs[cmd].kind = "swap" /\ pc_render' = "delete"

\* C12: between two consecutive swap executions the bump offset never
\* decreases and the slices returned with size > 0 have strictly ascending
\* offsets; immediately after a swap job has executed the offset is 0.
C12_TransientMonotone ==
    /\ [][(pc_render # "start" /\ ~SwapResetStep) =>
               m_transient_buffer_offset' >= m_transient_buffer_offset]_vars
    /\ [](\A i, k \in DOMAIN slices :
              (/\ i < k
               /\ slices[i].swaps = slices[k].swaps
               /\ slices[i].size > 0
               /\ slices[k].size > 0) => slices[i].offset < slices[k].offset)
    /\ [][SwapResetStep => m_transient_buffer_offset' = 0]_vars

\* C13: a call that finds offset + size over the budget returns size = 0 and
\* ptr = null and leaves the offset unchanged; any other call (one that
\* exactly fills the buffer included) returns the requested size with
\* ptr = base + old offset and advances the offset by exactly size.
C13_AllocInBand ==
    \A i \in DOMAIN slices :
        IF slices[i].offset + slices[i].asked > TRANSIENT_BUFFER_SIZE
        THEN /\ slices[i].size = 0
             /\ slices[i].ptr = nullptr
             /\ slices[i].after = slices[i].offset
        ELSE /\ slices[i].size = slices[i].asked
             /\ slices[i].ptr = MappedPtr + slices[i].offset
             /\ slices[i].after = slices[i].offset + slices[i].asked

\* C14: every slice returned with size > 0 lies inside the transient buffer,
\* for every value of the 32-bit unsigned size argument, and the bump offset
\* never exceeds TRANSIENT_BUFFER_SIZE.
C14_SlicesInsideBuffer ==
    /\ \A i \in DOMAIN slices :
          slices[i].size > 0 => slices[i].offset + slices[i].size <= TRANSIENT_BUFFER_SIZE
    /\ pc_render # "start" => m_transient_buffer_offset <= TRANSIENT_BUFFER_SIZE

\* a slice that is the first one allocated after a frame() call returned
FirstAfterFrame(i) ==
    /\ slices[i].frames > 0
    /\ i > 1 => slices[i - 1].frames < slices[i].frames

\* C15: the first allocTransient call after frame() has returned, with a
\* size within the budget, succeeds with offset 0.
C15_ResetVisibleAfterFrame ==
    \A i \in DOMAIN slices :
        (FirstAfterFrame(i) /\ slices[i].asked <= TRANSIENT_BUFFER_SIZE) =>
            (slices[i].offset = 0 /\ slices[i].size = slices[i].asked)

\* a create call whose handle allocator handed out no handle
InvalidHandleStep == calls' = calls + 1 /\ handles' = handles /\ ffr_ncalls' > ffr_ncalls

\* C16: when the handle allocator returns an invalid handle, createBuffer,
\* createTexture and loadTexture return it at once and enqueue no job: no
\* scheduler task is started, the command queue and m_last_exec_job are
\* unchanged.
C16_InvalidHandleNoJob ==
    [][InvalidHandleStep =>
          /\ create_ret' = INVALID_HANDLE
          /\ pc_prod' = "idle"
          /\ tasks' = tasks
          /\ signals' = signals
          /\ jobs' = jobs
          /\ <<m_commands_head, m_commands_tail, next>>' = <<m_commands_head, m_commands_tail, next>>
          /\ m_commands_semaphore' = m_commands_semaphore
          /\ m_last_exec_job' = m_last_exec_job]_vars

C16_Witness ==
    /\ calls = 2
    /\ handles = 1
    /\ create_ret = INVALID_HANDLE
    /\ Len(jobs) = 1
    /\ m_last_exec_job # INVALID_HANDLE
    /\ m_commands_head # nullptr
    /\ pc_prod = "idle"

NoDuplicates(s) == \A i, k \in DOMAIN s : i # k => s[i] # s[k]

\* C17: every job submitted before shutdown is appended to the command
\* queue once, popped once, executed once on the render thread and deleted
\* once, after its execute() has returned; once the render thread has left
\* the loop every such job has been through all of it.
C17_JobLifecycleOnce ==
    /\ [](/\ NoDuplicates(appended)
          /\ NoDuplicates(exec_log)
          /\ Range(exec_log) \subseteq Range(appended)
          /\ exec_done \subseteq Range(exec_log)
          /\ deleted \subseteq exec_done
          /\ pc_render \in {"teardown", "finished"} =>
                \A s \in ShutdownJobs : \A j \in 1..s :
                    j \in deleted /\ j \in Range(appended))
    /\ [][cmd' # cmd =>
              (cmd' \in Range(appended) /\ cmd' \notin Range(exec_log) /\ cmd \in deleted \cup {nullptr})]_vars
    /\ [][exec_log' # exec_log =>
              (/\ pc_render = "execute"
               /\ exec_log' = Append(exec_log, cmd)
               /\ cmd \notin Range(exec_log)
               /\ cmd \notin deleted)]_vars
    /\ [][deleted' # deleted =>
              (/\ pc_render = "delete"
               /\ deleted' = deleted \cup {cmd}
               /\ cmd \notin deleted
               /\ cmd \in exec_done)]_vars
    /\ [][(pc_render = "delete" /\ pc_render' # "delete") => deleted' # deleted]_vars

C17_Witness ==
    /\ pc_render = "finished"
    /\ Cardinality(deleted) >= 4
    /\ \E j \in deleted : jobs[j].kind = "swap"

\* C18: push() returns without waiting: its remaining step can be taken in
\* every state, whatever the scheduler tasks and the render thread are
\* doing, and it completes without any task making progress.
C18_PushDoesNotWait ==
    /\ [](pc_prod = "push" => ENABLED PushSecondRun)
    /\ []((pc_prod = "idle" /\ calls < MaxCalls) => ENABLED Create("createBuffer", TRUE))
    /\ [][(pc_prod = "push" /\ pc_prod' # "push") =>
              /\ pc_prod' = push_ret
              /\ \A t \in DOMAIN tasks : tasks'[t] = tasks[t]
              /\ <<pc_render, exec_log, exec_done, appended>>'
                    = <<pc_render, exec_log, exec_done, appended>>]_vars

C18_Witness ==
    /\ pc_prod = "idle"
    /\ Len(tasks) = 4
    /\ tasks[1].st = "running"
    /\ tasks[2].st = "queued"
    /\ tasks[3].st = "queued"
    /\ tasks[4].st = "queued"
    /\ pc_render = "start"

\* m_frame_semaphore.wait() calls of frame() that have returned
FrameWaits == frames_returned + (IF pc_prod = "frame_job" THEN 1 ELSE 0)

\* m_frame_semaphore.signal() calls swap jobs have made
SwapSignals == Cardinality(SwapJobs \cap Range(exec_log))

\* C19: the frame semaphore's count is between 0 and 2 in every state, and
\* no signal of a swap job is lost: the count is the initial two tokens,
\* less the waits of frame(), plus one token for every executed swap.
C19_FrameTokensConserved ==
    /\ m_frame_semaphore.count \in 0..FrameSemaphoreMax
    /\ m_frame_semaphore.count = FrameSemaphoreInit - FrameWaits + SwapSignals

\* jobs whose setup() is running
SetupRunning == {tasks[t].cmd : t \in {u \in DOMAIN tasks :
                                          tasks[u].fn = "setup" /\ tasks[u].st = "running"}}

\* C20 as stated: the setup() of a submission is never running while the
\* execute() of an earlier submission is running.
C20_SetupNeverDuringEarlierExecute ==
    pc_render = "executing" => \A i \in SetupRunning : ~(cmd < i)

\* C20 amended: the setup() of a submission is never running while its own
\* execute() or the execute() of a later submission is running, and no job
\* at or after a submission whose setup() has not returned has begun
\* execute(); the setup() may run during the execute() of an earlier one.
C20_SetupNeverDuringOwnOrLaterExecute ==
    /\ pc_render = "executing" => \A i \in SetupRunning : cmd < i
    /\ \A i \in SetupRunning : \A k \in DOMAIN exec_log : exec_log[k] < i

C20_Witness ==
    /\ pc_render = "executing"
    /\ cmd = 2
    /\ 3 \in SetupRunning
    /\ 1 \in deleted

\* jobs whose push task has appended them to the command queue
Appended == Range(appended)

\* C21: while the setup() of a job is running, the push tasks of all jobs
\* submitted before it have appended their jobs to the command queue.
C21_SetupAfterEarlierAppends ==
    \A i \in SetupRunning : \A j \in 1..(i - 1) : j \in Appended

\* C22: at most one job's setup() is in flight at any time.
C22_OneSetupInFlight == Cardinality(SetupRunning) <= 1

\* the scheduler has no pending task: push() is not between its two run
\* calls and every task it was given has finished
SchedulerIdle ==
    /\ pc_prod # "push"
    /\ Len(tasks) = 2 * Len(jobs)
    /\ \A t \in DOMAIN tasks : tasks[t].st = "done"

\* the swap job of the k-th frame() call
SwapOfFrame(k) == CHOOSE j \in SwapJobs : Cardinality({i \in SwapJobs : i <= j}) = k

\* the jobs pushed up to the last frame() call that has returned
FrameJobs == 1..SwapOfFrame(frames_returned)

\* the render thread has emptied the queue and is back at the top of its loop
RenderDrained == pc_render = "loop" /\ m_commands_head = nullptr

\* C23 as stated: once frame() has returned and the scheduler has no pending
\* task, every job pushed up to that frame() has been executed.
C23_ExecutedAfterFrameAndDrain ==
    (frames_returned >= 1 /\ SchedulerIdle) => FrameJobs \subseteq exec_done

\* C23 amended: once frame() has returned and the scheduler has no pending
\* task, every job pushed up to that frame() has been appended to the
\* command queue in submission order; the render thread executes them in
\* that order, and all of them have been executed once it has emptied the
\* queue.
C23_AppendedAfterFrameAndDrain ==
    (frames_returned >= 1 /\ SchedulerIdle) =>
       /\ \A j \in FrameJobs : j <= Len(appended) /\ appended[j] = j
       /\ \A i \in DOMAIN exec_log : exec_log[i] = appended[i]
       /\ RenderDrained => FrameJobs \subseteq exec_done

C23_Witness ==
    /\ frames_returned = 1
    /\ SchedulerIdle
    /\ Cardinality(FrameJobs) >= 2
    /\ RenderDrained
    /\ FrameJobs \subseteq exec_done

\* a frame() call returns
FrameReturnStep == frames_returned' = frames_returned + 1

\* C29: when frame() returns, the push task of every job submitted so far,
\* the frame's swap job included, has completed and the job has been
\* appended to the command queue, and m_last_exec_job is the invalid
\* handle, so the next push() allocates a fresh signal.
C29_FrameReturnsAfterAppends ==
    [][FrameReturnStep =>
          /\ \A j \in DOMAIN jobs :
                /\ j \in Appended
                /\ PushTask(j) \in DOMAIN tasks
                /\ tasks[PushTask(j)].st = "done"
          /\ jobs[Len(jobs)].kind = "swap"
          /\ m_last_exec_job' = INVALID_HANDLE
          /\ ~Run_joins(m_last_exec_job')]_vars

C29_Witness ==
    /\ frames_returned = 1
    /\ pc_prod = "idle"
    /\ Len(jobs) = 3
    /\ jobs[3].kind = "swap"
    /\ Len(appended) = 3
    /\ m_last_exec_job = INVALID_HANDLE
    /\ exec_log = <<>>

\* push tasks inside the critical section of m_commands_lock
WorkersInLock == {t \in DOMAIN tasks : tasks[t].st = "locked"}

\* threads inside the critical section of m_commands_lock
InLock == Cardinality(WorkersInLock) + (IF pc_render = "pop" THEN 1 ELSE 0)

\* C30: m_commands_head and m_commands_tail change only in a step of the
\* thread that holds m_commands_lock, at most one thread is inside the
\* critical section at a time, and the render thread is outside it from the
\* pop until the job's execute() has returned and the job is deleted.
C30_QueueUnderLock ==
    /\ [](/\ InLock <= 1
          /\ (m_commands_lock = "free") <=> (InLock = 0)
          /\ (m_commands_lock = "worker") <=> (WorkersInLock # {})
          /\ (m_commands_lock = "render") <=> (pc_render = "pop")
          /\ pc_render \in {"execute", "executing", "delete"} => m_commands_lock # "render")
    /\ [][(m_commands_head' # m_commands_head \/ m_commands_tail' # m_commands_tail) =>
             \/ /\ m_commands_lock = "worker"
                /\ \E t \in WorkersInLock : tasks'[t].st = "unlocked"
             \/ /\ m_commands_lock = "render"
                /\ pc_render = "pop" /\ pc_render' # "pop"]_vars

C30_Witness ==
    /\ pc_render = "executing"
    /\ m_commands_lock = "worker"
    /\ WorkersInLock # {}
    /\ m_commands_head # nullptr

\* the upload jobs of setGlobalState(), in submission order
StateJobs == {j \in DOMAIN jobs : jobs[j].kind = "setGlobalState"}

\* the uploads that have reached the driver
UploadsDone == Cardinality(StateJobs \cap exec_done)

\* C26: getGlobalState() returns the argument of the latest setGlobalState()
\* call; the k-th upload job carries the argument of the k-th call; after k
\* uploads have executed the driver's buffer holds the argument of the k-th
\* call, so once all of them have executed it holds the last value set.
C26_GlobalStateInCallOrder ==
    /\ set_log # <<>> => m_global_state = set_log[Len(set_log)]
    /\ state_ret.sets > 0 => state_ret.state = set_log[state_ret.sets]
    /\ Cardinality(StateJobs) = Len(set_log)
    /\ \A j \in StateJobs :
          jobs[j].state = set_log[Cardinality({i \in StateJobs : i <= j})]
    /\ UploadsDone > 0 => ffr_uniforms = set_log[UploadsDone]
    /\ (UploadsDone = Len(set_log) /\ set_log # <<>>) => ffr_uniforms = m_global_state

C26_Witness ==
    /\ set_log = <<1, 2>>
    /\ UploadsDone = 1
    /\ ffr_uniforms = 1
    /\ state_ret = [sets |-> 2, state |-> 2]

\* C25: the shader-define table never holds more than MAX_SHADER_DEFINES
\* entries: a call with a new name while the table is full reports the
\* error and leaves the table as it was.
C25_DefineTableCapped ==
    /\ [](Len(m_shader_defines) <= MAX_SHADER_DEFINES)
    /\ [][(DefineTableFull(m_shader_defines) /\ define_errors' # define_errors) =>
             m_shader_defines' = m_shader_defines]_vars

\* positions of the producer between allocTransient()'s first read of the
\* offset and its write-back
InsideAlloc == {"alloc_test", "alloc_add", "alloc_store"}

\* allocTransient() writes the offset back
AllocStoreStep == pc_prod = "alloc_store" /\ pc_prod' = "idle"

\* two returned slices share no byte
Disjoint(a, b) == a.offset + a.size <= b.offset \/ b.offset + b.size <= a.offset

\* C27: when the swap job writes offset = 0 the producer is not between
\* allocTransient()'s read of the offset and its write-back; so the write-back
\* never stores a sum taken from an offset older than the one it replaces,
\* and slices handed out after the same reset do not overlap.
C27_ResetOutsideAlloc ==
    /\ [][SwapResetStep => pc_prod \notin InsideAlloc]_vars
    /\ [][AllocStoreStep =>
             m_transient_buffer_offset' = UintAdd(m_transient_buffer_offset, slice.size)]_vars
    /\ [](\A i, k \in DOMAIN slices :
              (/\ i < k
               /\ slices[i].swaps = slices[k].swaps
               /\ slices[i].size > 0
               /\ slices[k].size > 0) => Disjoint(slices[i], slices[k]))

RECURSIVE SumSizes(_)
\* the sizes granted by the first n returned slices, added up
SumSizes(n) == IF n = 0 THEN 0 ELSE slices[n].size + SumSizes(n - 1)

\* C28: for allocTransient() calls of several threads between two swaps,
\* the slices returned with size > 0 are pairwise disjoint, and once the
\* calls have returned the offset is the sum of the sizes granted.
C28_ConcurrentAllocsDisjoint ==
    /\ \A i, k \in DOMAIN slices :
          (/\ i < k
           /\ slices[i].swaps = slices[k].swaps
           /\ slices[i].size > 0
           /\ slices[k].size > 0) => Disjoint(slices[i], slices[k])
    /\ (pc_render # "start" /\ pc_prod = "idle" /\ pc_alloc2 = "idle" /\ SwapsExecuted = 0) =>
          m_transient_buffer_offset = SumSizes(Len(slices))

\* two jobs were submitted by the same thread
SameThread(a, b) == (a \in submitter2) <=> (b \in submitter2)

\* no push() is between its two run calls and every scheduler task has finished
AllPushesDone ==
    /\ pc_prod # "push"
    /\ pc_prod2 # "push"
    /\ Len(tasks) = 2 * Len(jobs)
    /\ \A t \in DOMAIN tasks : tasks[t].st = "done"

\* C24: with push() called by two threads, every submitted job is appended
\* once and executed once, none is lost, and the jobs of one thread are
\* appended and executed in the order that thread submitted them.
C24_ConcurrentPushKeepsOrder ==
    /\ NoDuplicates(appended)
    /\ NoDuplicates(exec_log)
    /\ Range(exec_log) \subseteq Appended
    /\ AllPushesDone => Appended = DOMAIN jobs
    /\ \A i, k \in DOMAIN appended :
          (i < k /\ SameThread(appended[i], appended[k])) => appended[i] < appended[k]
    /\ \A i, k \in DOMAIN exec_log :
          (i < k /\ SameThread(exec_log[i], exec_log[k])) => exec_log[i] < exec_log[k]

\* frame() is at its swap into the history, or past it with m_history_wr not yet incremented
FrameAtSlot == pc_frame \in {"swap", "inc"}

\* getResults() is at its swap out of the history, or past it with m_history_rd not yet
\* incremented
GetResultsAtSlot == pc_get \in {"swap", "inc"}

\* C31: whenever frame() is at history[m_history_wr % 3] while getResults()
\* is at history[m_history_rd % 3], the two slots differ.
C31_HistorySlotsDiffer ==
    (FrameAtSlot /\ GetResultsAtSlot) =>
        SlotOf(m_profiler.m_history_wr) # SlotOf(m_profiler.m_history_rd)

C31_Witness ==
    /\ pc_frame = "swap"
    /\ pc_get = "swap"
    /\ m_profiler.m_history_wr = m_profiler.m_history_rd + 2

\* C32: every GPUProfiler::frame() call adds exactly one to m_frame, so
\* after k calls have returned m_frame is k.
C32_FrameCounterByOne ==
    /\ [](pc_frame = "idle" => m_profiler.m_frame = prof_frames)
    /\ [][prof_frames' = prof_frames + 1 =>
             m_profiler'.m_frame = m_profiler.m_frame + 1]_vars

\* the query handles the driver has created
QueryHandles == DOMAIN ffr_queries

\* how often a handle occurs in a sequence of handles
Occurrences(h, hs) == Cardinality({i \in DOMAIN hs : hs[i] = h})

\* the handles of the records of the current frame
FrameHandles(p) == [i \in DOMAIN p.m_queries |-> p.m_queries[i].handle]

\* C33: outside frame(), every query handle is either in exactly one record
\* of m_queries or exactly once in the pool; when frame() returns m_queries
\* is empty and every handle is in the pool, whether the frame was stored
\* or dropped; the driver creates a query only when the pool is empty.
C33_QueryHandlesConserved ==
    /\ [](pc_frame = "idle" =>
             \A h \in QueryHandles :
                 Occurrences(h, FrameHandles(m_profiler)) + Occurrences(h, m_profiler.m_pool) = 1)
    /\ [][prof_frames' = prof_frames + 1 =>
             /\ m_profiler'.m_queries = <<>>
             /\ \A h \in QueryHandles : Occurrences(h, m_profiler'.m_pool) = 1]_vars
    /\ [][Len(ffr_queries') > Len(ffr_queries) => m_profiler.m_pool = <<>>]_vars

C33_Witness ==
    /\ pc_frame = "idle"
    /\ Len(produced_log) = 4
    /\ produced_log[4] # <<>>
    /\ Len(stored_log) = 3
    /\ m_profiler.m_queries = <<>>
    /\ Len(m_profiler.m_pool) = 2
    /\ Len(ffr_queries) = 2

RECURSIVE QueueFrom(_, _)
\* the jobs reached from c by following next links, at most n of them
QueueFrom(c, n) ==
    IF c = nullptr \/ n = 0 THEN <<>> ELSE <<c>> \o QueueFrom(next[c], n - 1)

\* the jobs linked into the command queue, from the head
QueueList == QueueFrom(m_commands_head, Len(next) + 1)

\* jobs the render thread has detached from the queue
Popped == Len(exec_log) + (IF pc_render = "execute" THEN 1 ELSE 0)

\* C34: whenever m_commands_lock is free, head is null exactly when tail is
\* null; otherwise the next links lead from head to tail, tail's next is
\* null, and the list holds exactly the jobs that were appended and not yet
\* popped, in the order they were appended.
C34_QueueWellFormed ==
    m_commands_lock = "free" =>
        /\ (m_commands_head = nullptr) <=> (m_commands_tail = nullptr)
        /\ m_commands_head # nullptr =>
              /\ QueueList[Len(QueueList)] = m_commands_tail
              /\ next[m_commands_tail] = nullptr
        /\ Popped <= Len(appended)
        /\ QueueList = SubSeq(appended, Popped + 1, Len(appended))

C34_Witness ==
    /\ m_commands_lock = "free"
    /\ Len(QueueList) >= 2
    /\ Popped >= 1
    /\ m_commands_head # m_commands_tail

\* the render thread has returned from m_commands_semaphore.wait() and has not yet popped
WaitReturned == pc_render \in {"lock", "pop"}

\* C35: until the shutdown job has executed, the tokens of the commands
\* semaphore, the one the render thread has just taken included, never
\* exceed the jobs in the queue, so the queue holds a job each time the
\* wait returns; the pop finds no command only with m_shutdown_requested set.
C35_NoPopFromEmptyQueue ==
    /\ [](~m_shutdown_requested =>
             m_commands_semaphore.count + (IF WaitReturned THEN 1 ELSE 0) <= Len(QueueList))
    /\ [](WaitReturned => m_commands_head # nullptr)
    /\ [][(pc_render = "pop" /\ pc_render' # "pop" /\ cmd' = nullptr) =>
             m_shutdown_requested]_vars

C35_Witness ==
    /\ pc_render = "pop"
    /\ m_commands_semaphore.count = 1
    /\ Len(QueueList) = 3
    /\ \E t \in DOMAIN tasks : tasks[t].st = "unlocked"

\* the owned MemRefs the create calls were given
OwnedMemRefs == {m \in DOMAIN mem : mem[m].own}

\* C36: an owned MemRef passed to a create call is never freed twice and
\* never freed before the driver creation call has read it, and once the
\* render thread has finished it has been freed, also when the handle
\* allocator returned an invalid handle.
C36_MemRefFreedOnce ==
    /\ \A m \in OwnedMemRefs : mem[m].freed <= 1
    /\ \A m \in OwnedMemRefs : ~mem[m].read_after_free
    /\ pc_render = "finished" => \A m \in OwnedMemRefs : mem[m].freed = 1

\* the most jobs SpecLive submits: the create calls, the swap jobs and the shutdown job
MaxLiveJobs == MaxLiveCalls + MaxLiveFrames + 1

\* C37: every job submitted with push() is eventually executed by the
\* render thread, given fair threads and terminating setup() and execute().
C37_EveryJobExecuted ==
    \A j \in 1..MaxLiveJobs : (j \in DOMAIN jobs) ~> (j \in exec_done)

C37_Witness ==
    /\ Len(jobs) = MaxLiveJobs
    /\ exec_done = DOMAIN jobs
    /\ \E j \in DOMAIN jobs : jobs[j].kind = "createBuffer"

\* frame() has been entered and has not returned
InFrame ==
    \/ pc_prod = "push" /\ push_ret = "frame_semaphore"
    \/ pc_prod \in {"frame_semaphore", "frame_job"}

\* C38: every frame() call eventually returns, given fair threads and
\* terminating setup() and execute().
C38_FrameReturns == InFrame ~> (pc_prod = "idle" /\ frames_returned = frames)

C38_Witness ==
    /\ frames_returned = 3
    /\ pc_prod = "idle"
    /\ m_frame_semaphore.count = 0

\* the destructor has been entered and has not returned
InDtor ==
    \/ pc_prod = "push" /\ push_ret = "dtor_job"
    \/ pc_prod \in {"dtor_job", "dtor_finished"}

\* C39: the destructor eventually returns, given fair threads and
\* terminating setup() and execute(): the shutdown job is executed, the
\* render thread leaves its loop and signals m_finished_semaphore, once, and
\* both waits of the destructor complete.
C39_DestructorReturns ==
    /\ InDtor ~> (pc_prod = "destroyed")
    /\ InDtor ~> (ShutdownJobs # {} /\ ShutdownJobs \subseteq exec_done)
    /\ InDtor ~> (pc_render = "finished")
    /\ [][m_finished_semaphore'.count > m_finished_semaphore.count =>
             (pc_render = "teardown" /\ pc_render' = "finished")]_vars
    /\ [][pc_render = "finished" => pc_render' = "finished"]_vars

C39_Witness ==
    /\ pc_prod = "destroyed"
    /\ frames_returned = 3
    /\ pc_render = "finished"
    /\ m_finished_semaphore.count = 0

====
